---- MODULE Spec2Model ----
(***************************************************************************)
(* Model of the Tatum MCP server's retrying JSON-RPC proxy                 *)
(* (typescript/community/mcp-tools/tatum-mcp-server/src/mcp.ts).           *)
(*                                                                         *)
(* tatumRpc wraps one HTTP attempt (fetch, status classification, body     *)
(* parsing) in pRetry(fn, RETRY).  pRetry is the p-retry library on top of *)
(* the `retry` package: the attempt function is run, every Error it throws *)
(* is recorded by operation.retry(err) and retried while retries are left, *)
(* a TypeError that is not a network error is rethrown at once, and on     *)
(* exhaustion the promise rejects with operation.mainError().  RETRY sets  *)
(* no `retries`, so the library default of 10 retries applies.             *)
(***************************************************************************)
EXTENDS Integers, Naturals, Sequences, FiniteSets, Bags, TLC

\* ------------------------------------------------------------------ bounds

\* number of call sites (slots for tatumRpc invocations)
NumCalls == 2

\* a mocked transport answers every attempt with one of at most MaxMix responses
MaxMix == 2

\* the short hexadecimal inputs of the formatter have at most MaxHexDigits digits
MaxHexDigits == 2

\* the small decimals of the formatter are 0..MaxDecimals
MaxDecimals == 3

\* ------------------------------------------------------- program constants

\* p-retry's default `retries`; RETRY (mcp.ts:8) does not override it
Retries == 10

\* one initial attempt plus the retry cap
AttemptBudget == 1 + Retries

Calls == 1..NumCalls

\* methods passed to tatumRpc by the tools
Methods == {"eth_blockNumber", "eth_call"}

\* ------------------------------------------------------------- JSON bodies

\* JavaScript values that occur in a body's fields, by tag
Undefined == "undefined"

\* a test for null and undefined only
TruthyNonNull(v) == v \notin {"undefined", "null"}

\* Boolean(v) for the tagged values: undefined, null, 0, false and "" are falsy
Truthy(v) == v \notin {"undefined", "null", "0", "false", "empty"}

\* a response of the transport: an HTTP status and a body, or a network failure
\*   kind    "json" (an object), "null" (the JSON text null), "malformed", "netfail"
\*   result  the body's result field: "undefined" (absent), "r1", "r2"
\*   error   the body's error field: "undefined", "null", "0", "false", "empty"
\*           (the empty string), "oops" (a non-empty string), "obj" (an object)
\*   message error.message when error is an object: "undefined", "empty", "boom"
Resp(s, k, res, err, msg) ==
    [status |-> s, kind |-> k, result |-> res, error |-> err, message |-> msg]

JsonBody(s, res, err, msg) == Resp(s, "json", res, err, msg)

Responses ==
    { \* 2xx with a result
      JsonBody(200, "r1", Undefined, Undefined),
      JsonBody(201, "r2", Undefined, Undefined),
      \* 2xx with an error object
      JsonBody(200, Undefined, "obj", "boom"),
      JsonBody(200, Undefined, "obj", Undefined),
      JsonBody(200, Undefined, "obj", "empty"),
      JsonBody(200, "r1", "obj", "boom"),
      \* 2xx with an error field that is not an object
      JsonBody(200, "r1", "null", Undefined),
      JsonBody(200, "r1", "0", Undefined),
      JsonBody(200, "r2", "false", Undefined),
      JsonBody(200, "r2", "empty", Undefined),
      JsonBody(200, "r1", "oops", Undefined),
      \* 2xx whose body is not an object / not JSON
      Resp(200, "null", Undefined, Undefined, Undefined),
      Resp(200, "malformed", Undefined, Undefined, Undefined),
      \* rate limit / forbidden / unavailable, with assorted bodies
      Resp(429, "malformed", Undefined, Undefined, Undefined),
      JsonBody(403, "r1", Undefined, Undefined),
      JsonBody(503, Undefined, "obj", "boom"),
      \* other non-2xx
      JsonBody(404, "r1", Undefined, Undefined),
      \* fetch rejects: DNS, connection refused, timeout
      Resp(0, "netfail", Undefined, Undefined, Undefined) }

\* the answer sets of the mocked transports
RECURSIVE Mixes(_, _)
\* the sets of at least one and at most n responses of R
Mixes(R, n) ==
    IF n <= 1 THEN { {r} : r \in R }
    ELSE { T \cup {r} : T \in Mixes(R, n - 1), r \in R }

Transports == Mixes(Responses, MaxMix)

\* the answers of a gateway that rate-limits or is down now and then: 429, 403,
\* 503 and 404 with any body, and successful or empty 2xx bodies
BusyResponses ==
    { r \in Responses :
        \/ r.status \in {429, 403, 503, 404}
        \/ r.status \in 200..299 /\ r.kind \in {"json", "null"} /\ r.error = Undefined }

BusyTransports == Mixes(BusyResponses, MaxMix)

\* ------------------------------------------------------------------ errors

Err(n, m) == [name |-> n, message |-> m]

NoError == Err("", "")

NoResp == Resp(0, "none", Undefined, Undefined, Undefined)

\* Response.ok of node-fetch: status in 200..299
ResOk(r) == r.status >= 200 /\ r.status < 300

Thrown(e) == [ok |-> FALSE, value |-> Undefined, error |-> e]

\* a fixed value returned instead of the body's result
ReturnedStale(v) == [ok |-> TRUE, value |-> "r1", error |-> NoError]

Returned(v) == [ok |-> TRUE, value |-> v, error |-> NoError]

\* 403 left out of the statuses of the rate/service branch
RateOrServiceStatusNo403(s) == s = 429 \/ s = 503

\* 503 left out of the statuses of the rate/service branch
RateOrServiceStatusNo503(s) == s = 429 \/ s = 403

\* the statuses of the rate/service branch
RateOrServiceStatus(s) == s = 429 \/ s = 403 \/ s = 503

\* the function retried by pRetry: one fetch and the handling of its response
Attempt(method, r) ==
    IF r.kind = "netfail"
    THEN Thrown(Err("FetchError", "request failed"))
    ELSE IF RateOrServiceStatus(r.status)
    THEN Thrown(Err("Error", "Rate/Service error " \o ToString(r.status)))
    ELSE IF ~ResOk(r)
    THEN Thrown(Err("Error", "RPC " \o method \o " failed " \o ToString(r.status)))
    ELSE IF r.kind = "malformed"
    THEN Thrown(Err("FetchError", "invalid json response body"))
    ELSE IF r.kind = "null"
    THEN Thrown(Err("TypeError", "Cannot read properties of null"))
    ELSE IF Truthy(r.error)
    THEN Thrown(Err("Error", IF Truthy(r.message) THEN r.message ELSE "RPC error"))
    ELSE Returned(r.result)

\* ------------------------------------------------------------------- state

VARIABLES
    pc,         \* per call: "idle", "fetch" (request in flight), "backoff"
                \* (retry timer pending), "returned", "raised"
    method,     \* per call: the JSON-RPC method of the request body
    transport,  \* per call: the answers its transport may give
    attempts,   \* per call: HTTP attempts made so far (p-retry's attemptNumber)
    errors,     \* per call: the retry operation's _errors, as a bag of messages
    mainErr,    \* per call: operation.mainError() of the errors recorded so far
    res,        \* per call: the response received by the latest attempt
    lastErr,    \* per call: the error thrown by the latest attempt, if it threw
    outcome,    \* per call: how the promise settled
    timeouts,   \* per call: the retry operation's _timeouts still to be slept
    slept,      \* per call: the delays slept between its attempts, in order
    earlier,    \* what the latest settled call left: failed attempts, outcome
    objects,    \* the objects tatumRpc is given by reference: cfg, params, RETRY
    hex,        \* the hexadecimal quantity a balance tool got from tatumRpc
    hexDec,     \* what get_token_balance's decimals call returned
    decimals,   \* the token's decimals in get_token_balance
    formatted,  \* get_token_balance's `formatted`, once computed
    ether,      \* get_native_balance's `ether`, once computed
    tool,       \* the tool handler under way: its name, the method it was
                \* given, where it stands and how it ended
    closure,    \* per call: the url and body that tatumRpc built for its attempts
    requests,   \* per call: the HTTP requests its attempts have sent, in order
    transports, \* per HTTP server: the session ids its `transports` registry holds
    closed,     \* the session ids of the Centrifuge transports that have closed
    answer      \* the latest HTTP request to a session route and its answer

\* the state of the calls apart from their retry delays
rpcVars == <<pc, method, transport, attempts, errors, mainErr, res, lastErr, outcome>>

\* the retry delays of the calls, the trace of the latest settled call and the
\* objects shared with the callers
delayVars == <<timeouts, slept, earlier, objects>>

\* the formatting of a balance
formatVars == <<hex, hexDec, decimals, formatted, ether>>

\* the tool handler and the requests of its calls
toolVars == <<tool, closure, requests>>

\* the session registries of the HTTP servers
sessionVars == <<transports, closed, answer>>

vars == <<pc, method, transport, attempts, errors, mainErr, res, lastErr, outcome,
          timeouts, slept, earlier, objects, hex, hexDec, decimals, formatted, ether,
          tool, closure, requests, transports, closed, answer>>

Pending == [kind |-> "pending", value |-> Undefined, error |-> NoError]

Fulfilled(v) == [kind |-> "value", value |-> v, error |-> NoError]

Rejected(e) == [kind |-> "error", value |-> Undefined, error |-> e]

\* the retry options of tatumRpc, in milliseconds
RETRY == [factor |-> 2, minTimeout |-> 500, maxTimeout |-> 8000, randomize |-> TRUE]

\* the configuration the server is created with: the chain names the endpoint
\* https://<chain>.gateway.tatum.io
Cfg == [chain |-> "ethereum-mainnet", tatumApiKey |-> "key"]

\* no call has settled yet
NoEarlier == [failed |-> 0, kind |-> "none"]

\* no tool handler is under way
NoTool == [name |-> "", method |-> "", at |-> "idle", outcome |-> Pending]

\* tatumRpc has built nothing
NoClosure == [url |-> "", body |-> Undefined]

\* no HTTP request has been handled
NoAnswer == [server |-> "", route |-> "", sessionId |-> Undefined, init |-> FALSE,
             registered |-> FALSE, status |-> 0, reached |-> Undefined]

\* the HTTP servers have started: const transports = {}
NoSessions ==
    /\ transports = [tatum |-> {}, centrifuge |-> {}]
    /\ closed = {}
    /\ answer = NoAnswer

\* no call has been made yet
NoCalls ==
    /\ NoSessions
    /\ pc = [c \in Calls |-> "idle"]
    /\ method = [c \in Calls |-> ""]
    /\ transport = [c \in Calls |-> {}]
    /\ attempts = [c \in Calls |-> 0]
    /\ errors = [c \in Calls |-> EmptyBag]
    /\ mainErr = [c \in Calls |-> NoError]
    /\ res = [c \in Calls |-> NoResp]
    /\ lastErr = [c \in Calls |-> NoError]
    /\ outcome = [c \in Calls |-> Pending]
    /\ timeouts = [c \in Calls |-> << >>]
    /\ slept = [c \in Calls |-> << >>]
    /\ earlier = NoEarlier
    /\ objects = [cfg |-> Cfg, params |-> << >>, RETRY |-> RETRY]
    /\ tool = NoTool
    /\ closure = [c \in Calls |-> NoClosure]
    /\ requests = [c \in Calls |-> << >>]

\* no call has been made yet and no balance is being formatted
Init ==
    /\ NoCalls
    /\ hex = "" /\ hexDec = Undefined /\ decimals = 0
    /\ formatted = Undefined /\ ether = Undefined

\* ----------------------------------------------------------------- p-retry

\* p-retry's isNetworkError: a TypeError with one of the known fetch messages
IsNetworkError(e) == e.message \in {"Failed to fetch", "fetch failed", "Network request failed"}

\* every error that is not a plain Error rethrown at once
UnrecoverableUnlessPlain(e) == e.name # "Error"

\* p-retry rethrows at once a TypeError that is not a network error
Unrecoverable(e) == e.name = "TypeError" /\ ~IsNetworkError(e)

\* a retry cap that is one short
RetriesLeftShort(made) == made - 1 < Retries - 1

\* a retry cap that is one long
RetriesLeftLong(made) == made - 1 < Retries + 1

\* RetryOperation.retry(err) finds a timeout left: `made` attempts have been made
RetriesLeft(made) == made - 1 < Retries

\* the error of the last attempt
MainErrorLast(bag, main, e) == e

\* RetryOperation.mainError(), folded: `e` is pushed onto errors `bag` whose main
\* error so far is `main`; the error whose count is the largest wins, the later
\* one on a tie (count >= mainErrorCount).  mainError() is a left fold over
\* _errors, so the bag of messages and the main error so far carry all of it.
MainError(bag, main, e) ==
    IF CopiesIn(e.message, bag) + 1 >= CopiesIn(main.message, bag) THEN e ELSE main

\* ------------------------------------------------------------ retry delays

\* values of Math.random() + 1 in thousandths: the least one and one near the
\* supremum 2
Randoms == {1000, 1999}

RECURSIVE Pow(_, _)
\* Math.pow(b, n)
Pow(b, n) == IF n = 0 THEN 1 ELSE b * Pow(b, n - 1)

\* Math.round(n / d) for n >= 0, d > 0
Round(n, d) == (2 * n + d) \div (2 * d)

Min(a, b) == IF a <= b THEN a ELSE b

Max(a, b) == IF a >= b THEN a ELSE b

\* a timeout that is not capped by opts.maxTimeout
CreateTimeoutUncapped(attempt, random, opts) ==
    LET rnd == IF opts.randomize THEN random ELSE 1000
    IN  Round(rnd * Max(opts.minTimeout, 1) * Pow(opts.factor, attempt), 1000)

\* a timeout whose exponent is one too large
CreateTimeoutNextPower(attempt, random, opts) ==
    LET rnd == IF opts.randomize THEN random ELSE 1000
        timeout == Round(rnd * Max(opts.minTimeout, 1) * Pow(opts.factor, attempt + 1), 1000)
    IN  Min(timeout, opts.maxTimeout)

\* retry.createTimeout(attempt, opts), `attempt` counted from 0, with `random`
\* (thousandths) drawn when opts.randomize and 1 otherwise
CreateTimeout(attempt, random, opts) ==
    LET rnd == IF opts.randomize THEN random ELSE 1000
        timeout == Round(rnd * Max(opts.minTimeout, 1) * Pow(opts.factor, attempt), 1000)
    IN  Min(timeout, opts.maxTimeout)

RECURSIVE Insert(_, _)
\* x put into the ascending sequence s
Insert(x, s) ==
    IF s = << >> THEN << x >>
    ELSE IF x <= Head(s) THEN << x >> \o s
    ELSE << Head(s) >> \o Insert(x, Tail(s))

RECURSIVE SortAscending(_)
\* timeouts.sort(function(a, b) { return a - b })
SortAscending(s) == IF s = << >> THEN << >> ELSE Insert(Head(s), SortAscending(Tail(s)))

\* retry.timeouts(options): one timeout per retry, sorted; random[i] is the
\* random factor drawn for the i-th of them
Timeouts(random, opts) ==
    SortAscending([i \in 1..Retries |-> CreateTimeout(i - 1, random[i], opts)])

\* ----------------------------------------------------------------- actions

\* no call is under way
Quiet == \A d \in Calls : pc[d] = "idle"

\* the JSON-RPC id of the request body built by call c
RequestId(c) == 1

\* tatumRpc(cfg, m, params) builds the request body; pRetry starts the operation,
\* which runs the first attempt at once
Start(c, m, T) ==
    /\ pc' = [pc EXCEPT ![c] = "fetch"]
    /\ method' = [method EXCEPT ![c] = m]
    /\ transport' = [transport EXCEPT ![c] = T]
    /\ attempts' = [attempts EXCEPT ![c] = 1]
    /\ errors' = [errors EXCEPT ![c] = EmptyBag]
    /\ mainErr' = [mainErr EXCEPT ![c] = NoError]
    /\ res' = [res EXCEPT ![c] = NoResp]
    /\ lastErr' = [lastErr EXCEPT ![c] = NoError]
    /\ outcome' = [outcome EXCEPT ![c] = Pending]

\* a caller runs tatumRpc(cfg, m, params) when the calls of the process are
\* awaited one by one
Invoke(c, m, T) == Quiet /\ Start(c, m, T)

\* the attempt function returned v: pRetry resolves and stops the operation
OnSuccess(c, r, v) ==
    /\ pc' = [pc EXCEPT ![c] = "returned"]
    /\ outcome' = [outcome EXCEPT ![c] = Fulfilled(v)]
    /\ res' = [res EXCEPT ![c] = r]
    /\ lastErr' = [lastErr EXCEPT ![c] = NoError]
    /\ UNCHANGED <<method, transport, attempts, errors, mainErr>>

\* the attempt function threw e: pRetry's catch block
OnFailure(c, r, e) ==
    /\ res' = [res EXCEPT ![c] = r]
    /\ lastErr' = [lastErr EXCEPT ![c] = e]
    /\ IF Unrecoverable(e)
       THEN /\ pc' = [pc EXCEPT ![c] = "raised"]
            /\ outcome' = [outcome EXCEPT ![c] = Rejected(e)]
            /\ UNCHANGED <<errors, mainErr>>
       ELSE /\ errors' = [errors EXCEPT ![c] = @ (+) SetToBag({e.message})]
            /\ mainErr' = [mainErr EXCEPT ![c] = MainError(errors[c], @, e)]
            /\ IF RetriesLeft(attempts[c])
               THEN /\ pc' = [pc EXCEPT ![c] = "backoff"]
                    /\ UNCHANGED outcome
               ELSE /\ pc' = [pc EXCEPT ![c] = "raised"]
                    /\ outcome' = [outcome EXCEPT ![c] = Rejected(mainErr'[c])]
    /\ UNCHANGED <<method, transport, attempts>>

\* a response handled only while no call sleeps: a delay that blocks the thread
RespondUnlessSleeping(c, r) ==
    /\ pc[c] = "fetch"
    /\ \A d \in Calls : pc[d] # "backoff"
    /\ r \in transport[c]
    /\ LET a == Attempt(method[c], r)
       IN  IF a.ok THEN OnSuccess(c, r, a.value) ELSE OnFailure(c, r, a.error)

\* the transport answers the request in flight with r and the attempt function
\* runs to its end
Respond(c, r) ==
    /\ pc[c] = "fetch"
    /\ r \in transport[c]
    /\ LET a == Attempt(method[c], r)
       IN  IF a.ok THEN OnSuccess(c, r, a.value) ELSE OnFailure(c, r, a.error)

\* a retry timer that does not wait for the attempt in flight to fail
TimerEarly(c) ==
    /\ pc[c] \in {"fetch", "backoff"}
    /\ attempts[c] < AttemptBudget
    /\ pc' = [pc EXCEPT ![c] = "fetch"]
    /\ attempts' = [attempts EXCEPT ![c] = @ + 1]
    /\ UNCHANGED <<method, transport, errors, mainErr, res, lastErr, outcome>>

\* an attempt counter that every running call counts on
TimerShared(c) ==
    /\ pc[c] = "backoff"
    /\ pc' = [pc EXCEPT ![c] = "fetch"]
    /\ attempts' = [d \in Calls |->
                       IF pc[d] \in {"fetch", "backoff"} /\ attempts[d] < AttemptBudget
                       THEN attempts[d] + 1 ELSE attempts[d]]
    /\ UNCHANGED <<method, transport, errors, mainErr, res, lastErr, outcome>>

\* the retry timer fires: the next attempt is made
Timer(c) ==
    /\ pc[c] = "backoff"
    /\ pc' = [pc EXCEPT ![c] = "fetch"]
    /\ attempts' = [attempts EXCEPT ![c] = @ + 1]
    /\ UNCHANGED <<method, transport, errors, mainErr, res, lastErr, outcome>>

\* the caller takes the settled promise's outcome; nothing of the call is kept
Settle(c) ==
    /\ pc[c] \in {"returned", "raised"}
    /\ pc' = [pc EXCEPT ![c] = "idle"]
    /\ method' = [method EXCEPT ![c] = ""]
    /\ transport' = [transport EXCEPT ![c] = {}]
    /\ attempts' = [attempts EXCEPT ![c] = 0]
    /\ errors' = [errors EXCEPT ![c] = EmptyBag]
    /\ mainErr' = [mainErr EXCEPT ![c] = NoError]
    /\ res' = [res EXCEPT ![c] = NoResp]
    /\ lastErr' = [lastErr EXCEPT ![c] = NoError]
    /\ outcome' = [outcome EXCEPT ![c] = Pending]

\* some call site calls tatumRpc with some method, against some transport
CallTatumRpc == Quiet /\ \E c \in Calls, m \in Methods, T \in Transports : Invoke(c, m, T)

\* the calls with their retry delays left out: how long a timer sleeps changes
\* nothing of what the attempts do
Next ==
    \/ CallTatumRpc /\ UNCHANGED <<delayVars, formatVars, toolVars, sessionVars>>
    \/ \E c \in Calls, r \in Responses : Respond(c, r) /\ UNCHANGED <<delayVars, formatVars, toolVars, sessionVars>>
    \/ \E c \in Calls : Timer(c) /\ UNCHANGED <<delayVars, formatVars, toolVars, sessionVars>>
    \/ \E c \in Calls : Settle(c) /\ UNCHANGED <<delayVars, formatVars, toolVars, sessionVars>>

Spec == Init /\ [][Next]_vars

\* a pending retry timer fires, and the transport answers every request in
\* flight (the hypothesis of the claims about what it answers)
Fairness ==
    /\ \A c \in Calls : WF_rpcVars(Timer(c))
    /\ \A c \in Calls : WF_rpcVars(\E r \in Responses : Respond(c, r))

\* every behaviour of the calls, with timers that fire and requests that are
\* answered
FairSpec == Spec /\ Fairness

\* some call site calls tatumRpc against a gateway that rate-limits
CallBusyGateway ==
    Quiet /\ \E c \in Calls, m \in Methods, T \in BusyTransports : Invoke(c, m, T)

BusyNext ==
    \/ CallBusyGateway /\ UNCHANGED <<delayVars, formatVars, toolVars, sessionVars>>
    \/ \E c \in Calls, r \in Responses : Respond(c, r) /\ UNCHANGED <<delayVars, formatVars, toolVars, sessionVars>>
    \/ \E c \in Calls : Timer(c) /\ UNCHANGED <<delayVars, formatVars, toolVars, sessionVars>>
    \/ \E c \in Calls : Settle(c) /\ UNCHANGED <<delayVars, formatVars, toolVars, sessionVars>>

\* the calls against a gateway that rate-limits, with timers that fire and
\* requests that are answered
BusySpec == Init /\ [][BusyNext]_vars /\ Fairness

\* the answers over a flaky network: the fetch fails, or it is answered with a
\* result
FlakyResponses ==
    { r \in Responses :
        \/ r.kind = "netfail"
        \/ ResOk(r) /\ r.kind = "json" /\ r.error = Undefined }

FlakyTransports == Mixes(FlakyResponses, MaxMix)

\* get_block_number calls tatumRpc over a flaky network; retry.operation draws
\* the timeouts of the call's retries
CallFlakyNetwork ==
    /\ Quiet
    /\ \E c \in Calls, T \in FlakyTransports, random \in [1..Retries -> Randoms] :
          /\ Invoke(c, "eth_blockNumber", T)
          /\ timeouts' = [timeouts EXCEPT ![c] = Timeouts(random, objects.RETRY)]
          /\ slept' = [slept EXCEPT ![c] = << >>]
    /\ UNCHANGED <<earlier, objects, formatVars, toolVars, sessionVars>>

\* a retry that keeps its backoff in the shared options: every delay slept
\* doubles RETRY.minTimeout
RespondThenSleepStateful(c, r) ==
    /\ Respond(c, r)
    /\ IF pc'[c] = "backoff"
       THEN /\ timeouts' = [timeouts EXCEPT ![c] = Tail(@)]
            /\ slept' = [slept EXCEPT ![c] = Append(@, Head(timeouts[c]))]
            /\ objects' = [objects EXCEPT !.RETRY.minTimeout = Min(2 * @, RETRY.maxTimeout)]
       ELSE UNCHANGED <<timeouts, slept, objects>>
    /\ UNCHANGED <<earlier, formatVars, toolVars, sessionVars>>

\* the attempt of call c is answered; when it failed and a retry is left,
\* RetryOperation.retry shifts the next timeout and sleeps it
RespondThenSleep(c, r) ==
    /\ Respond(c, r)
    /\ IF pc'[c] = "backoff"
       THEN /\ timeouts' = [timeouts EXCEPT ![c] = Tail(@)]
            /\ slept' = [slept EXCEPT ![c] = Append(@, Head(timeouts[c]))]
       ELSE UNCHANGED <<timeouts, slept>>
    /\ UNCHANGED <<earlier, objects, formatVars, toolVars, sessionVars>>

\* the caller takes the outcome of call c; the next call comes after it
SettleThenNext(c) ==
    /\ Settle(c)
    /\ earlier' = [failed |-> BagCardinality(errors[c]), kind |-> outcome[c].kind]
    /\ timeouts' = [timeouts EXCEPT ![c] = << >>]
    /\ slept' = [slept EXCEPT ![c] = << >>]
    /\ UNCHANGED <<objects, formatVars, toolVars, sessionVars>>

RetryNext ==
    \/ CallFlakyNetwork
    \/ \E c \in Calls, r \in Responses : RespondThenSleep(c, r)
    \/ \E c \in Calls : Timer(c) /\ UNCHANGED <<delayVars, formatVars, toolVars, sessionVars>>
    \/ \E c \in Calls : SettleThenNext(c)

\* calls made one after another over a flaky network, with their retry delays,
\* timers that fire and requests that are answered
RetrySpec == Init /\ [][RetryNext]_vars /\ Fairness

\* the answers given to concurrent calls: each transport gives one answer, a
\* result, a 429 or a 404
ConcurrentResponses ==
    { r \in Responses : r.status \in {429, 404} \/ (ResOk(r) /\ r.kind = "json" /\ r.error = Undefined) }

ConcurrentTransports == { {r} : r \in ConcurrentResponses }

\* a tool handler calls tatumRpc while calls of other handlers are under way
CallConcurrently ==
    \E c \in Calls :
        /\ pc[c] = "idle"
        /\ \E T \in ConcurrentTransports : Start(c, "eth_call", T)

ConcurrentNext ==
    \/ CallConcurrently /\ UNCHANGED <<delayVars, formatVars, toolVars, sessionVars>>
    \/ \E c \in Calls, r \in Responses : Respond(c, r) /\ UNCHANGED <<delayVars, formatVars, toolVars, sessionVars>>
    \/ \E c \in Calls : Timer(c) /\ UNCHANGED <<delayVars, formatVars, toolVars, sessionVars>>
    \/ \E c \in Calls : Settle(c) /\ UNCHANGED <<delayVars, formatVars, toolVars, sessionVars>>

\* the timer of the first call fires and its requests are answered; nothing is
\* assumed of the other calls, whose delays may last for ever
FirstCallFairness ==
    /\ WF_rpcVars(Timer(1))
    /\ WF_rpcVars(\E r \in Responses : Respond(1, r))

\* calls that run concurrently in one process
ConcurrentSpec == Init /\ [][ConcurrentNext]_vars /\ FirstCallFairness

\* a JSON-RPC error whose message is the text of the client's own rate error
EchoedRateError == JsonBody(200, Undefined, "obj", "Rate/Service error 429")

\* the answers of a gateway that fails: 429, 403 or 503, a JSON-RPC error
\* object, a body that is not JSON, and a result now and then
FailingResponses ==
    { r \in Responses :
        \/ r.status \in {429, 403, 503}
        \/ r.status = 200 /\ r.kind = "json" /\ r.result = "r1" /\ r.error = Undefined
        \/ r.status = 200 /\ r.kind = "json" /\ r.result = Undefined /\ r.message = "boom"
        \/ r.status = 200 /\ r.kind = "malformed" }
    \cup {EchoedRateError}

FailingTransports == Mixes(FailingResponses, MaxMix)

\* some call site calls tatumRpc against a gateway that fails
CallFailingGateway ==
    Quiet /\ \E c \in Calls, m \in Methods, T \in FailingTransports : Invoke(c, m, T)

FailingNext ==
    \/ CallFailingGateway /\ UNCHANGED <<delayVars, formatVars, toolVars, sessionVars>>
    \/ \E c \in Calls, r \in FailingResponses : Respond(c, r) /\ UNCHANGED <<delayVars, formatVars, toolVars, sessionVars>>
    \/ \E c \in Calls : Timer(c) /\ UNCHANGED <<delayVars, formatVars, toolVars, sessionVars>>
    \/ \E c \in Calls : Settle(c) /\ UNCHANGED <<delayVars, formatVars, toolVars, sessionVars>>

\* the calls against a gateway that fails
FailingSpec == Init /\ [][FailingNext]_vars

\* ------------------------------------------------------------------ BigInt

\* A bigint is the sequence of its decimal digits, the most significant first,
\* without leading zeros; zero is <<0>>.

RECURSIVE Norm(_)
\* leading zeros dropped
Norm(a) ==
    IF a = << >> THEN <<0>>
    ELSE IF Len(a) > 1 /\ Head(a) = 0 THEN Norm(Tail(a))
    ELSE a

RECURSIVE NatDigits(_)
\* the digits of a natural number, none for 0
NatDigits(n) == IF n = 0 THEN << >> ELSE NatDigits(n \div 10) \o << n % 10 >>

RECURSIVE MulAddCarry(_, _, _)
\* the digits of a * k + carry, from the least significant digit up
MulAddCarry(a, k, carry) ==
    IF a = << >> THEN NatDigits(carry)
    ELSE LET v == a[Len(a)] * k + carry
         IN  MulAddCarry(SubSeq(a, 1, Len(a) - 1), k, v \div 10) \o << v % 10 >>

\* a * k + x for a bigint a and small naturals k, x
BigMulAdd(a, k, x) == Norm(MulAddCarry(a, k, x))

RECURSIVE LexLess(_, _)
\* a < b digit by digit, for digit sequences of one length
LexLess(a, b) ==
    /\ a # << >>
    /\ \/ Head(a) < Head(b)
       \/ Head(a) = Head(b) /\ LexLess(Tail(a), Tail(b))

\* a < b
BigLess(a, b) == Len(a) < Len(b) \/ (Len(a) = Len(b) /\ LexLess(a, b))

\* a with leading zeros up to n digits
ZeroExtend(a, n) == [i \in 1..(n - Len(a)) |-> 0] \o a

RECURSIVE SubBorrow(_, _, _)
\* the digits of a - b - borrow for digit sequences of one length, a >= b
SubBorrow(a, b, borrow) ==
    IF a = << >> THEN << >>
    ELSE LET v == a[Len(a)] - b[Len(b)] - borrow
         IN  SubBorrow(SubSeq(a, 1, Len(a) - 1), SubSeq(b, 1, Len(b) - 1), IF v < 0 THEN 1 ELSE 0)
                 \o << IF v < 0 THEN v + 10 ELSE v >>

\* a - b for a >= b
BigSub(a, b) == Norm(SubBorrow(a, ZeroExtend(b, Len(a)), 0))

RECURSIVE AddCarry(_, _, _)
\* the digits of a + b + carry for digit sequences of one length
AddCarry(a, b, carry) ==
    IF a = << >> THEN NatDigits(carry)
    ELSE LET v == a[Len(a)] + b[Len(b)] + carry
         IN  AddCarry(SubSeq(a, 1, Len(a) - 1), SubSeq(b, 1, Len(b) - 1), v \div 10) \o << v % 10 >>

\* a + b
BigAdd(a, b) ==
    LET n == Max(Len(a), Len(b))
    IN  Norm(AddCarry(ZeroExtend(a, n), ZeroExtend(b, n), 0))

RECURSIVE Reduce(_, _)
\* b taken off r while it fits: how many times (a quotient digit) and what is left
Reduce(r, b) ==
    IF BigLess(r, b) THEN [q |-> 0, r |-> r]
    ELSE LET less == Reduce(BigSub(r, b), b)
         IN  [q |-> less.q + 1, r |-> less.r]

RECURSIVE LongDivision(_, _, _)
\* long division by b: the digits a are brought down one by one onto the
\* remainder r, the last digit of a onto the remainder of the digits before it
LongDivision(a, b, r) ==
    IF a = << >> THEN [q |-> << >>, r |-> r]
    ELSE LET before == LongDivision(SubSeq(a, 1, Len(a) - 1), b, r)
             digit == a[Len(a)]
         IN  IF before.r = <<0>> /\ digit = 0
             THEN [q |-> before.q \o <<0>>, r |-> <<0>>]
             ELSE LET step == Reduce(Norm(before.r \o << digit >>), b)
                  IN  [q |-> before.q \o << step.q >>, r |-> step.r]

\* quotient and remainder of bigints, b > 0: the leading digits of a, one fewer
\* than b has, are less than b and make the first remainder
BigDivMod(a, b) ==
    IF BigLess(a, b) THEN [q |-> <<0>>, r |-> a]
    ELSE LET lead == Len(b) - 1
             qr == LongDivision(SubSeq(a, lead + 1, Len(a)), b, Norm(SubSeq(a, 1, lead)))
         IN  [q |-> Norm(qr.q), r |-> qr.r]

\* a / b of bigints (truncating), b > 0
BigDiv(a, b) == BigDivMod(a, b).q

\* a % b of bigints, b > 0
BigMod(a, b) == BigDivMod(a, b).r

\* 10n ** BigInt(n): a one and n zeros
BigPow10(n) == <<1>> \o [i \in 1..n |-> 0]

\* a is a bigint
IsBigInt(a) == a \in Seq(0..9) /\ a # << >> /\ (Len(a) > 1 => a[1] # 0)

RECURSIVE BigToString(_)
\* bigint.toString()
BigToString(a) == IF a = << >> THEN "" ELSE ToString(Head(a)) \o BigToString(Tail(a))

\* the hexadecimal digits, each at its value plus one
HexDigitChars == "0123456789abcdef"

CharAt(str, i) == SubSeq(str, i, i)

\* the value of a hexadecimal digit
HexDigitValue(ch) == CHOOSE v \in 0..15 : CharAt(HexDigitChars, v + 1) = ch

RECURSIVE ParseDigits(_, _)
\* the bigint that the digits of str denote in the given radix
ParseDigits(str, radix) ==
    IF str = "" THEN <<0>>
    ELSE LET before == ParseDigits(SubSeq(str, 1, Len(str) - 1), radix)
             digit == HexDigitValue(CharAt(str, Len(str)))
         IN  IF before = <<0>> THEN Norm(NatDigits(digit))
             ELSE BigMulAdd(before, radix, digit)

\* 2^53, from which on not every integer is a double
TwoTo53 == <<9, 0, 0, 7, 1, 9, 9, 2, 5, 4, 7, 4, 0, 9, 9, 2>>

RECURSIVE BigTimesPow2(_, _)
\* a * 2^k
BigTimesPow2(a, k) == IF k = 0 THEN a ELSE BigMulAdd(BigTimesPow2(a, k - 1), 2, 0)

RECURSIVE Exponent(_, _)
\* the least k with b < limit * 2^k
Exponent(b, limit) == IF BigLess(b, limit) THEN 0 ELSE 1 + Exponent(b, BigMulAdd(limit, 2, 0))

\* Number(b) of a bigint b >= 0, as the integer the double is: b itself below
\* 2^53, and above it the nearest multiple of the unit 2^k of its binade, the
\* even multiple in a tie
ToNumber(b) ==
    LET k == Exponent(b, TwoTo53)
        ulp == BigTimesPow2(<<1>>, k)
        qr == BigDivMod(b, ulp)
        twice == BigMulAdd(qr.r, 2, 0)
        odd == qr.q[Len(qr.q)] % 2 = 1
        down == BigSub(b, qr.r)
    IN  IF k = 0 \/ qr.r = <<0>> THEN b
        ELSE IF BigLess(ulp, twice) \/ (twice = ulp /\ odd) THEN BigAdd(down, ulp)
        ELSE down

\* the bigint of a natural number
NatBig(n) == Norm(NatDigits(n))

RECURSIVE BigToNat(_)
\* the natural number of a bigint of few digits
BigToNat(a) == IF a = << >> THEN 0 ELSE 10 * BigToNat(SubSeq(a, 1, Len(a) - 1)) + a[Len(a)]

\* str is made of digits of the given radix only (the empty string too)
IsDigits(str, radix) ==
    \A i \in 1..Len(str) : \E v \in 0..(radix - 1) : CharAt(HexDigitChars, v + 1) = CharAt(str, i)

\* str has the prefix 0x
HasHexPrefix(str) == Len(str) >= 2 /\ SubSeq(str, 1, 2) = "0x"

\* BigInt(str) returns for the empty string, for 0x and at least one
\* hexadecimal digit, and for decimal digits; on any other string over the
\* characters 0-9, a-z it throws a SyntaxError
IsBigIntLiteral(str) ==
    \/ str = ""
    \/ HasHexPrefix(str) /\ Len(str) > 2 /\ IsDigits(SubSeq(str, 3, Len(str)), 16)
    \/ ~HasHexPrefix(str) /\ IsDigits(str, 10)

\* the SyntaxError of BigInt(str) as a tool's outcome
SyntaxError == "SyntaxError"

\* the digits of str from its first digit that is not 0 on
Significant(str) ==
    LET nonzero == { i \in 1..Len(str) : CharAt(str, i) # "0" }
    IN  IF nonzero = {} THEN ""
        ELSE SubSeq(str, CHOOSE i \in nonzero : \A j \in nonzero : i <= j, Len(str))

\* the string read as a double and made a bigint: BigInt(Number(hex))
HexToBigIntViaNumber(str) ==
    ToNumber(IF Len(str) >= 2 /\ SubSeq(str, 1, 2) = "0x"
             THEN ParseDigits(Significant(SubSeq(str, 3, Len(str))), 16)
             ELSE ParseDigits(Significant(str), 10))

\* BigInt(hex) for a string of digits: hexadecimal after the prefix 0x, decimal
\* without it
HexToBigInt(str) ==
    IF Len(str) >= 2 /\ SubSeq(str, 1, 2) = "0x"
    THEN ParseDigits(Significant(SubSeq(str, 3, Len(str))), 16)
    ELSE ParseDigits(Significant(str), 10)

\* --------------------------------------------------------------- formatter

RECURSIVE Repeat(_, _)
Repeat(ch, n) == IF n <= 0 THEN "" ELSE ch \o Repeat(ch, n - 1)

\* a string that is not padded
PadStartNot(str, n, ch) == str

\* str.padStart(n, ch)
PadStart(str, n, ch) == Repeat(ch, n - Len(str)) \o str

\* a string whose trailing zeros are kept
TrimTrailingZerosNot(str) == str

RECURSIVE TrimTrailingZeros(_)
\* str.replace(/0+$/, '')
TrimTrailingZeros(str) ==
    IF str # "" /\ CharAt(str, Len(str)) = "0"
    THEN TrimTrailingZeros(SubSeq(str, 1, Len(str) - 1))
    ELSE str

\* a string taken as it is, the empty one too
OrZeroNot(str) == str

\* str || '0': the empty string is falsy
OrZero(str) == IF str = "" THEN "0" ELSE str

\* a formatting that strips the trailing zeros of the whole rendering, not of
\* the fraction alone
FormatUnitsTrimAll(raw, dec) ==
    LET base == BigPow10(dec)
        whole == BigDiv(raw, base)
        frac == BigMod(raw, base)
        fracStr == PadStart(BigToString(frac), dec, "0")
    IN  OrZero(TrimTrailingZeros(BigToString(whole) \o (IF dec = 0 THEN "" ELSE "." \o fracStr)))

\* get_token_balance's formatting of the raw balance at the token's decimals
FormatUnits(raw, dec) ==
    LET base == BigPow10(dec)
        whole == BigDiv(raw, base)
        frac == BigMod(raw, base)
        fracStr == OrZero(TrimTrailingZeros(PadStart(BigToString(frac), dec, "0")))
    IN  BigToString(whole) \o (IF fracStr = "0" THEN "" ELSE "." \o fracStr)

\* a copy of the formatting that pads the fraction to 17 digits
WeiToEtherStringShortPad(weiHex) ==
    LET wei == HexToBigInt(weiHex)
        base == BigPow10(18)
        whole == BigDiv(wei, base)
        frac == BigMod(wei, base)
        fracStr == OrZero(TrimTrailingZeros(PadStart(BigToString(frac), 17, "0")))
    IN  BigToString(whole) \o (IF fracStr = "0" THEN "" ELSE "." \o fracStr)

\* weiToEtherString(weiHex)
WeiToEtherString(weiHex) ==
    LET wei == HexToBigInt(weiHex)
        base == BigPow10(18)
        whole == BigDiv(wei, base)
        frac == BigMod(wei, base)
        fracStr == OrZero(TrimTrailingZeros(PadStart(BigToString(frac), 18, "0")))
    IN  BigToString(whole) \o (IF fracStr = "0" THEN "" ELSE "." \o fracStr)

\* Node's bigints have at most 2^30 bits: 10n ** n throws a RangeError from
\* this n on at the latest
MaxBigIntBits == 1073741824

\* the RangeError of 10n ** BigInt(decimals) as a tool's outcome
RangeError == "RangeError"

\* get_token_balance from line 112 on, the Number decimals given by the digits
\* d of its integer value: hexToBigInt(hexBal), 10n ** BigInt(decimals) and the
\* formatting
TokenFormatted(hexBal, d) ==
    IF ~IsBigIntLiteral(hexBal) THEN SyntaxError
    ELSE IF ~BigLess(d, NatBig(MaxBigIntBits)) THEN RangeError
    ELSE FormatUnits(HexToBigInt(hexBal), BigToNat(d))

\* decimals = Number(hexToBigInt(hexDec)) in a try whose catch keeps the
\* decimals set before
DecimalsRead(str, before) ==
    IF IsBigIntLiteral(str) THEN ToNumber(HexToBigInt(str)) ELSE NatBig(before)

RECURSIVE HexStrings(_)
\* the strings of n hexadecimal digits
HexStrings(n) ==
    IF n = 0 THEN {""}
    ELSE { str \o CharAt(HexDigitChars, i) : str \in HexStrings(n - 1), i \in 1..16 }

\* quantities of 18 digits and more: 10^17, 10^18 - 1 (with a leading zero),
\* 10^18, 10^18 + 1, 2 * 10^18 + 5 * 10^17, 2^64 - 1
LargeHexInputs ==
    { "0x16345785d8a0000", "0x0de0b6b3a763ffff", "0xde0b6b3a7640000", "0xde0b6b3a7640001",
      "0x22b1c8c1227a0000", "0xffffffffffffffff" }

\* the quantities formatted: every short one and some large ones
HexInputs ==
    { "0x" \o str : str \in UNION { HexStrings(n) : n \in 1..MaxHexDigits } } \cup LargeHexInputs

\* the decimals formatted: the small ones, 6 and 18
DecimalsInputs == (0..MaxDecimals) \cup {6, 18}

\* a balance tool has got a quantity, and get_token_balance the token's decimals
FormatInit ==
    /\ NoCalls
    /\ hex \in HexInputs
    /\ hexDec = Undefined
    /\ decimals \in DecimalsInputs
    /\ formatted = Undefined
    /\ ether = Undefined

\* get_token_balance formats the raw balance
FormatTokenBalance ==
    /\ formatted = Undefined
    /\ formatted' = TokenFormatted(hex, NatBig(decimals))
    /\ UNCHANGED <<rpcVars, delayVars, toolVars, sessionVars, hex, hexDec, decimals, ether>>

\* get_native_balance formats the balance in wei
FormatNativeBalance ==
    /\ ether = Undefined
    /\ ether' = IF IsBigIntLiteral(hex) THEN WeiToEtherString(hex) ELSE SyntaxError
    /\ UNCHANGED <<rpcVars, delayVars, toolVars, sessionVars, hex, hexDec, decimals, formatted>>

FormatNext == FormatTokenBalance \/ FormatNativeBalance

\* the balance tools format the quantities they got
FormatSpec == FormatInit /\ [][FormatNext]_vars

RECURSIVE HexOf(_)
\* the hexadecimal digits of a natural number
HexOf(n) ==
    IF n < 16 THEN CharAt(HexDigitChars, n + 1)
    ELSE HexOf(n \div 16) \o CharAt(HexDigitChars, (n % 16) + 1)

\* results of the decimals call that no token has: 2^53 + 1 and 2^64 - 1
HugeDecimalsResults == { "0x20000000000001", "0xffffffffffffffff" }

\* what the decimals call may return: the decimals formatted as short
\* quantities, 18 as the 32-byte word of an ABI-encoded uint8, the empty
\* result 0x of an address without code, and the huge ones
DecimalsResults ==
    { "0x" \o HexOf(d) : d \in DecimalsInputs }
        \cup { "0x0000000000000000000000000000000000000000000000000000000000000012", "0x" }
        \cup HugeDecimalsResults

\* the quantities of 2^53 and more: 2^53, 2^53 + 1 and the large ones
ExactHexInputs == { "0x20000000000000", "0x20000000000001" } \cup LargeHexInputs

\* get_native_balance has got a quantity, get_token_balance the balance and the
\* result of its decimals call
ExactInit ==
    /\ NoCalls
    /\ hex \in ExactHexInputs
    /\ hexDec \in DecimalsResults
    /\ decimals = 18
    /\ formatted = Undefined
    /\ ether = Undefined

\* get_token_balance once the decimals call has returned: the decimals are
\* read and the raw balance is formatted; a Number of 2^30 and more is kept as
\* the digits of its integer value
ReadDecimalsThenFormat ==
    /\ formatted = Undefined
    /\ \E d \in { DecimalsRead(hexDec, decimals) } :
          /\ decimals' = IF BigLess(d, NatBig(MaxBigIntBits)) THEN BigToNat(d) ELSE d
          /\ formatted' = TokenFormatted(hex, d)
    /\ UNCHANGED <<rpcVars, delayVars, toolVars, sessionVars, hex, hexDec, ether>>

ExactNext == ReadDecimalsThenFormat \/ FormatNativeBalance

\* the balance tools format the large quantities they got
ExactSpec == ExactInit /\ [][ExactNext]_vars

\* the strings a balance tool may be handed: every string of up to
\* MaxHexDigits hexadecimal digits bare and behind 0x, the empty string, the
\* bare prefix, and strings with a character that is no hexadecimal digit
ParseInputs ==
    LET digits == UNION { HexStrings(n) : n \in 1..MaxHexDigits }
    IN  digits \cup { "0x" \o str : str \in digits } \cup { "", "0x", "0xg", "0x1g", "g1", "xyz" }

\* a balance tool has got a string from the gateway
ParseInit ==
    /\ NoCalls
    /\ hex \in ParseInputs
    /\ hexDec = Undefined
    /\ decimals \in DecimalsInputs
    /\ formatted = Undefined
    /\ ether = Undefined

\* the balance tools parse and format the strings they got
ParseSpec == ParseInit /\ [][FormatNext]_vars

\* ------------------------------------------------------------------- tools

\* the methods rpc_call forwards
ALLOW_METHODS ==
    { "eth_blockNumber", "eth_getBalance", "eth_getBlockByNumber",
      "eth_getTransactionByHash", "eth_getLogs", "eth_call", "eth_chainId",
      "eth_gasPrice", "eth_estimateGas", "eth_getCode", "eth_getTransactionReceipt" }

\* the tools of the server that make one tatumRpc call with a method of their
\* own, and the method and params of that call
FixedTools ==
    [ get_block_number |-> [method |-> "eth_blockNumber", params |-> << >>],
      get_native_balance |-> [method |-> "eth_getBalance", params |-> <<"address", "latest">>],
      get_block_by_number |-> [method |-> "eth_getBlockByNumber", params |-> <<"tagOrNumber", "full">>],
      get_transaction_by_hash |-> [method |-> "eth_getTransactionByHash", params |-> <<"hash">>],
      get_logs |-> [method |-> "eth_getLogs", params |-> <<"filter">>] ]

\* the params of the two calls of get_token_balance
BalCall == <<"balCall", "latest">>

DecCall == <<"decCall", "latest">>

\* the methods a client may hand to rpc_call: the allowed ones, methods that
\* write or sign, and misspelt ones
RequestedMethods ==
    ALLOW_METHODS \cup { "eth_sendRawTransaction", "eth_sendTransaction", "personal_sign",
                         "", "ETH_CALL", "eth_call " }

\* the answers of the gateway to the calls of a tool: quantities, the empty
\* result 0x, the body null, a rate limit and a network failure
ToolResponses ==
    { JsonBody(200, "0x12", Undefined, Undefined),
      JsonBody(200, "0x6", Undefined, Undefined),
      JsonBody(200, "0x", Undefined, Undefined),
      Resp(200, "null", Undefined, Undefined, Undefined),
      Resp(429, "malformed", Undefined, Undefined, Undefined),
      Resp(0, "netfail", Undefined, Undefined, Undefined) }

\* the gateways of the tools: each gives one answer, or either of two
ToolTransports == { {r, s} : r \in ToolResponses, s \in ToolResponses }

\* the url of the gateway of the configured chain
Url(cfg) == "https://" \o cfg.chain \o ".gateway.tatum.io"

\* the request body tatumRpc builds for call c
Body(c, m, params) == [jsonrpc |-> "2.0", id |-> RequestId(c), method |-> m, params |-> params]

\* the request an attempt of call c sends: a POST of the body built by
\* tatumRpc to the url it built, with the API key of the configuration
Fetch(built, cfg) ==
    [url |-> built.url, method |-> "POST", contentType |-> "application/json",
     apiKey |-> cfg.tatumApiKey, body |-> built.body]

\* a request built anew for each attempt, numbered by the attempt
FetchTheNextNumbered(c) ==
    /\ requests' = [requests EXCEPT ![c] =
          Append(@, Fetch([closure[c] EXCEPT !.body.id = attempts'[c]], objects.cfg))]
    /\ UNCHANGED <<tool, closure>>

\* the next attempt of call c sends the request
FetchTheNext(c) ==
    /\ requests' = [requests EXCEPT ![c] = Append(@, Fetch(closure[c], objects.cfg))]
    /\ UNCHANGED <<tool, closure>>

\* tatumRpc(cfg, m, params) as call c: url and body are built, pRetry starts
\* the operation and the first attempt sends the request
StartThenFetch(c, m, params, T) ==
    /\ Start(c, m, T)
    /\ closure' = [closure EXCEPT ![c] = [url |-> Url(objects.cfg), body |-> Body(c, m, params)]]
    /\ requests' = [requests EXCEPT ![c] = << Fetch(closure'[c], objects.cfg) >>]

\* a tool handler is under way at the given place
ToolAt(name, m, at) == [name |-> name, method |-> m, at |-> at, outcome |-> Pending]

\* a tool handler has ended
ToolEnded(o) == [tool EXCEPT !.at = "settled", !.outcome = o]

\* rpc_call forwarding whatever method it is handed
CallRpcCallUnchecked ==
    /\ tool.at = "idle"
    /\ \E m \in RequestedMethods, T \in ToolTransports :
          /\ StartThenFetch(1, m, <<"params">>, T)
          /\ tool' = ToolAt("rpc_call", m, "awaiting")
    /\ UNCHANGED <<delayVars, sessionVars, formatVars>>

\* rpc_call with an allowed method calls tatumRpc with it
CallRpcCall ==
    /\ tool.at = "idle"
    /\ \E m \in RequestedMethods \cap ALLOW_METHODS, T \in ToolTransports :
          /\ StartThenFetch(1, m, <<"params">>, T)
          /\ tool' = ToolAt("rpc_call", m, "awaiting")
    /\ UNCHANGED <<delayVars, sessionVars, formatVars>>

\* rpc_call with any other method throws before it calls tatumRpc
RefuseRpcCall ==
    /\ tool.at = "idle"
    /\ \E m \in RequestedMethods \ ALLOW_METHODS :
          tool' = [ToolAt("rpc_call", m, "settled") EXCEPT
                      !.outcome = Rejected(Err("Error", "Method not allowed"))]
    /\ UNCHANGED <<rpcVars, delayVars, sessionVars, formatVars, closure, requests>>

\* a tool with a method of its own calls tatumRpc
CallFixedTool ==
    /\ tool.at = "idle"
    /\ \E name \in DOMAIN FixedTools, T \in ToolTransports :
          /\ StartThenFetch(1, FixedTools[name].method, FixedTools[name].params, T)
          /\ tool' = ToolAt(name, "", "awaiting")
    /\ UNCHANGED <<delayVars, sessionVars, formatVars>>

\* get_token_balance calls tatumRpc for the balance
CallTokenBalance ==
    /\ tool.at = "idle"
    /\ \E T \in ToolTransports :
          /\ StartThenFetch(1, "eth_call", BalCall, T)
          /\ tool' = ToolAt("get_token_balance", "", "balance")
    /\ UNCHANGED <<delayVars, sessionVars, hex, hexDec, formatted, ether>>
    /\ decimals' = 18

\* what a tool with one call makes of the value its call returned
ToolResult(name, v) ==
    CASE name = "get_block_number" ->
            IF IsBigIntLiteral(v) THEN Fulfilled(BigToString(HexToBigInt(v)))
            ELSE Rejected(Err("SyntaxError", SyntaxError))
      [] name = "get_native_balance" ->
            IF IsBigIntLiteral(v) THEN Fulfilled(WeiToEtherString(v))
            ELSE Rejected(Err("SyntaxError", SyntaxError))
      [] OTHER -> Fulfilled(v)

\* the call of a tool with one call has settled: the handler returns what it
\* makes of the result, or throws the error of the call
EndTool ==
    /\ tool.at = "awaiting"
    /\ pc[1] \in {"returned", "raised"}
    /\ tool' = ToolEnded(IF pc[1] = "raised" THEN outcome[1]
                         ELSE ToolResult(tool.name, outcome[1].value))
    /\ UNCHANGED <<rpcVars, delayVars, sessionVars, formatVars, closure, requests>>

\* the balance call of get_token_balance has raised: so does the handler
EndTokenBalanceNoBalance ==
    /\ tool.at = "balance"
    /\ pc[1] = "raised"
    /\ tool' = ToolEnded(outcome[1])
    /\ UNCHANGED <<rpcVars, delayVars, sessionVars, formatVars, closure, requests>>

\* the decimals call issued without a look at how the balance call ended
CallDecimalsAnyway ==
    /\ tool.at = "balance"
    /\ pc[1] \in {"returned", "raised"}
    /\ \E T \in ToolTransports : StartThenFetch(2, "eth_call", DecCall, T)
    /\ tool' = [tool EXCEPT !.at = "decimals"]
    /\ hex' = IF pc[1] = "returned" THEN outcome[1].value ELSE hex
    /\ UNCHANGED <<delayVars, sessionVars, hexDec, decimals, formatted, ether>>

\* the balance call of get_token_balance has returned hexBal: the handler calls
\* tatumRpc for the decimals
CallDecimals ==
    /\ tool.at = "balance"
    /\ pc[1] = "returned"
    /\ \E T \in ToolTransports : StartThenFetch(2, "eth_call", DecCall, T)
    /\ tool' = [tool EXCEPT !.at = "decimals"]
    /\ hex' = outcome[1].value
    /\ UNCHANGED <<delayVars, sessionVars, hexDec, decimals, formatted, ether>>

\* the decimals call of get_token_balance has settled: its value is read as
\* the decimals, or its error is caught, and the balance is formatted
EndTokenBalance ==
    /\ tool.at = "decimals"
    /\ pc[2] \in {"returned", "raised"}
    /\ hexDec' = IF pc[2] = "returned" THEN outcome[2].value ELSE hexDec
    /\ \E d \in { IF pc[2] = "returned" THEN DecimalsRead(outcome[2].value, decimals)
                   ELSE NatBig(decimals) } :
          /\ decimals' = IF BigLess(d, NatBig(MaxBigIntBits)) THEN BigToNat(d) ELSE d
          /\ formatted' = TokenFormatted(hex, d)
    /\ tool' = ToolEnded(IF formatted' \in {SyntaxError, RangeError}
                         THEN Rejected(Err(formatted', formatted')) ELSE Fulfilled(formatted'))
    /\ UNCHANGED <<rpcVars, delayVars, sessionVars, hex, ether, closure, requests>>

\* the client has got the answer of the tool; nothing of the handler is kept
ReturnTool ==
    /\ tool.at = "settled"
    /\ pc' = [c \in Calls |-> "idle"]
    /\ method' = [c \in Calls |-> ""]
    /\ transport' = [c \in Calls |-> {}]
    /\ attempts' = [c \in Calls |-> 0]
    /\ errors' = [c \in Calls |-> EmptyBag]
    /\ mainErr' = [c \in Calls |-> NoError]
    /\ res' = [c \in Calls |-> NoResp]
    /\ lastErr' = [c \in Calls |-> NoError]
    /\ outcome' = [c \in Calls |-> Pending]
    /\ tool' = NoTool
    /\ closure' = [c \in Calls |-> NoClosure]
    /\ requests' = [c \in Calls |-> << >>]
    /\ UNCHANGED <<delayVars, sessionVars>>
    /\ hex' = "" /\ hexDec' = Undefined /\ decimals' = 0
    /\ formatted' = Undefined /\ ether' = Undefined

\* the tools of the server, called one after the other
ToolNext ==
    \/ CallRpcCall
    \/ RefuseRpcCall
    \/ CallFixedTool
    \/ CallTokenBalance
    \/ \E c \in Calls, r \in ToolResponses :
          Respond(c, r) /\ UNCHANGED <<delayVars, formatVars, toolVars, sessionVars>>
    \/ \E c \in Calls : Timer(c) /\ FetchTheNext(c) /\ UNCHANGED <<delayVars, sessionVars, formatVars>>
    \/ EndTool
    \/ EndTokenBalanceNoBalance
    \/ CallDecimals
    \/ EndTokenBalance
    \/ ReturnTool

ToolSpec == Init /\ [][ToolNext]_vars

\* ---------------------------------------------------------------- sessions

\* the sessions a server opens
MaxSessions == 2

\* the session ids randomUUID hands out
SessionIds == { "session-" \o ToString(i) : i \in 1..MaxSessions }

\* the properties a plain object such as `transports` inherits from
\* Object.prototype; each is a function, but for __proto__, the prototype
\* itself: all are truthy and none is a transport
ObjectPrototypeKeys ==
    { "constructor", "__proto__", "hasOwnProperty", "isPrototypeOf",
      "propertyIsEnumerable", "toLocaleString", "toString", "valueOf",
      "__defineGetter__", "__defineSetter__", "__lookupGetter__", "__lookupSetter__" }

\* the session ids a client may send: the ones handed out, one that no server
\* knows, and names of inherited properties
RequestedIds == SessionIds \cup {"unknown"} \cup ObjectPrototypeKeys

\* a session id or none: a request without the sessionId query parameter, or
\* without the mcp-session-id header, has undefined
SessionIdOrNone == RequestedIds \cup {Undefined}

\* transports[sessionId] on the plain object: the transport registered under
\* the id, else the property of that name inherited from Object.prototype, else
\* undefined
Lookup(registry, sessionId) ==
    IF sessionId \in registry THEN [kind |-> "transport", id |-> sessionId]
    ELSE IF sessionId \in ObjectPrototypeKeys THEN [kind |-> "inherited", id |-> Undefined]
    ELSE [kind |-> "undefined", id |-> Undefined]

\* an async handler that rejects: Express 4 leaves the request without an
\* answer (0), Express 5 hands the error on and answers 500
Unhandled == {0, 500}

\* a request to a session route and its answer: whether its session id was in
\* the registry when it came, the status answered and the transport that got
\* the request, if one did
Answered(server, route, sessionId, init, status, reached) ==
    [server |-> server, route |-> route, sessionId |-> sessionId, init |-> init,
     registered |-> sessionId \in transports[server], status |-> status, reached |-> reached]

\* what a handler does with the transport it looked up and calls: a transport
\* answers the request itself, anything else has no such method and the call
\* throws a TypeError, answered with the statuses `thrown`
Dispatched(t, ok, thrown) == IF t.kind = "transport" THEN {ok} ELSE thrown

\* Tatum, app.get('/sse'): a transport is made, registered under its session
\* id and connected
GetSse ==
    /\ \E id \in SessionIds \ transports.tatum :
          /\ transports' = [transports EXCEPT !.tatum = @ \cup {id}]
          /\ answer' = Answered("tatum", "GET /sse", Undefined, FALSE, 200, id)
    /\ UNCHANGED <<closed, rpcVars, delayVars, formatVars, toolVars>>

\* Tatum, app.post('/messages'): 400 when the lookup gives nothing, else
\* transport.handlePostMessage
PostMessages ==
    /\ \E sessionId \in SessionIdOrNone :
          LET transport_ == Lookup(transports.tatum, sessionId)
          IN  IF transport_.kind = "undefined"
              THEN answer' = Answered("tatum", "POST /messages", sessionId, FALSE, 400, Undefined)
              ELSE \E status \in Dispatched(transport_, 202, Unhandled) :
                      answer' = Answered("tatum", "POST /messages", sessionId, FALSE,
                                         status, transport_.id)
    /\ UNCHANGED <<transports, closed, rpcVars, delayVars, formatVars, toolVars>>

\* Centrifuge, mcpPostHandler: a request with a session id that the lookup
\* finds goes to what was found; an initialize request without session id gets
\* a new transport, whose session is registered when it is initialized; every
\* other request is answered 400; what the handler throws is answered 500
McpPost ==
    /\ \E sessionId \in SessionIdOrNone, init \in BOOLEAN :
          LET transport_ == Lookup(transports.centrifuge, sessionId)
          IN  IF sessionId # Undefined /\ transport_.kind # "undefined"
              THEN /\ \E status \in Dispatched(transport_, 200, {500}) :
                         answer' = Answered("centrifuge", "POST /mcp", sessionId, init,
                                            status, transport_.id)
                   /\ UNCHANGED transports
              ELSE IF sessionId = Undefined /\ init
              THEN \E id \in SessionIds \ (transports.centrifuge \cup closed) :
                      /\ transports' = [transports EXCEPT !.centrifuge = @ \cup {id}]
                      /\ answer' = Answered("centrifuge", "POST /mcp", sessionId, init, 200, id)
              ELSE /\ answer' = Answered("centrifuge", "POST /mcp", sessionId, init, 400, Undefined)
                   /\ UNCHANGED transports
    /\ UNCHANGED <<closed, rpcVars, delayVars, formatVars, toolVars>>

\* Centrifuge, mcpGetHandler: 400 without a session id or when the lookup
\* gives nothing, else transport.handleRequest
McpGet ==
    /\ \E sessionId \in SessionIdOrNone :
          LET transport_ == Lookup(transports.centrifuge, sessionId)
          IN  IF sessionId = Undefined \/ transport_.kind = "undefined"
              THEN answer' = Answered("centrifuge", "GET /mcp", sessionId, FALSE, 400, Undefined)
              ELSE \E status \in Dispatched(transport_, 200, Unhandled) :
                      answer' = Answered("centrifuge", "GET /mcp", sessionId, FALSE,
                                         status, transport_.id)
    /\ UNCHANGED <<transports, closed, rpcVars, delayVars, formatVars, toolVars>>

\* Centrifuge, mcpDeleteHandler: 400 without a session id or when the lookup
\* gives nothing, else transport.handleRequest, which closes the transport:
\* its onclose deletes the session; what the handler throws is answered 500
McpDelete ==
    /\ \E sessionId \in SessionIdOrNone :
          LET transport_ == Lookup(transports.centrifuge, sessionId)
          IN  IF sessionId = Undefined \/ transport_.kind = "undefined"
              THEN /\ answer' = Answered("centrifuge", "DELETE /mcp", sessionId, FALSE, 400, Undefined)
                   /\ UNCHANGED <<transports, closed>>
              ELSE /\ \E status \in Dispatched(transport_, 200, {500}) :
                         answer' = Answered("centrifuge", "DELETE /mcp", sessionId, FALSE,
                                            status, transport_.id)
                   /\ IF transport_.kind = "transport"
                      THEN /\ transports' = [transports EXCEPT !.centrifuge = @ \ {sessionId}]
                           /\ closed' = closed \cup {sessionId}
                      ELSE UNCHANGED <<transports, closed>>
    /\ UNCHANGED <<rpcVars, delayVars, formatVars, toolVars>>

\* Centrifuge, transport.onclose: the transport of a session closes and its
\* session id is deleted from the registry
McpClose ==
    /\ \E sid \in transports.centrifuge :
          /\ transports' = [transports EXCEPT !.centrifuge = @ \ {sid}]
          /\ closed' = closed \cup {sid}
    /\ UNCHANGED <<answer, rpcVars, delayVars, formatVars, toolVars>>

SessionNext ==
    \/ GetSse
    \/ PostMessages
    \/ McpPost
    \/ McpGet
    \/ McpDelete
    \/ McpClose

\* the session routes of the two HTTP servers, requested in any order
SessionSpec == Init /\ [][SessionNext]_vars

\* ------------------------------------------------------------------ claims

RateMsg(s) == "Rate/Service error " \o ToString(s)

\* the failed attempts of call c recorded so far
Failed(c) == BagCardinality(errors[c])

\* every failed attempt of call c so far was answered 429
Only429(c) == BagToSet(errors[c]) \subseteq {RateMsg(429)}

\* the latest response to call c is a 2xx JSON object without error
SuccessBody(r) == ResOk(r) /\ r.kind = "json" /\ r.error = Undefined

C1_Counts ==
    \A c \in Calls : Only429(c) =>
        /\ (pc[c] = "returned" /\ SuccessBody(res[c])) =>
              /\ Failed(c) < AttemptBudget
              /\ attempts[c] = Failed(c) + 1
              /\ outcome[c] = Fulfilled(res[c].result)
        /\ (pc[c] = "raised" /\ res[c].status = 429) => Failed(c) = AttemptBudget

C1_NoAttemptAfterSuccess ==
    \A c \in Calls : pc[c] = "returned" =>
        \/ pc'[c] = "returned" /\ attempts'[c] = attempts[c]
        \/ pc'[c] = "idle"

\* C1: when the first k < AttemptBudget attempts of a call are answered 429 and
\* attempt k+1 is answered by a 2xx body without error, the call returns that
\* body's result after exactly k+1 attempts; it does not give up earlier and it
\* makes no attempt after the successful one.
C1_RetryThenSucceed == [](C1_Counts) /\ [][C1_NoAttemptAfterSuccess]_vars

\* C1 witness: ten 429 answers, then the eleventh attempt succeeds
C1_Witness ==
    \E c \in Calls :
        /\ pc[c] = "returned"
        /\ errors[c] = [m \in {RateMsg(429)} |-> Retries]
        /\ attempts[c] = AttemptBudget
        /\ outcome[c] = Fulfilled("r2")

\* C5: whatever the transport answers, a call never makes more HTTP attempts than
\* the attempt budget, one initial attempt plus the retry cap.
C5_AttemptsBounded == \A c \in Calls : attempts[c] <= AttemptBudget

\* C5 witness: a call that used its whole budget on a mix of failures
C5_Witness ==
    \E c \in Calls :
        /\ attempts[c] = AttemptBudget
        /\ pc[c] = "raised"
        /\ Cardinality(BagToSet(errors[c])) = 2

\* the transport of call c answers every attempt with status 403
Always403(c) == transport[c] # {} /\ \A r \in transport[c] : r.status = 403

C2_Safe ==
    \A c \in Calls : Always403(c) =>
        /\ pc[c] # "returned"
        /\ outcome[c].kind # "value"
        /\ attempts[c] <= AttemptBudget
        /\ pc[c] = "raised" =>
              /\ attempts[c] = AttemptBudget
              /\ outcome[c] = Rejected(Err("Error", RateMsg(403)))

C2_Terminates ==
    \A c \in Calls :
        (pc[c] = "fetch" /\ Always403(c)) ~> (pc[c] = "raised" /\ attempts[c] = AttemptBudget)

\* C2: a call whose transport answers every attempt with 403 never returns a
\* value, makes no more attempts than the budget, and eventually raises the
\* rate/service error, after exactly AttemptBudget attempts.
C2_Always403Raises == [](C2_Safe) /\ C2_Terminates

\* C2 witness: the call has raised after its eleventh 403
C2_Witness ==
    \E c \in Calls :
        /\ Always403(c)
        /\ pc[c] = "raised"
        /\ attempts[c] = AttemptBudget

\* r is a 2xx response whose JSON body carries an error object
AppErrorBody(r) == ResOk(r) /\ r.kind = "json" /\ r.error = "obj"

\* the message of the application error of such a body
AppMsg(r) == IF r.message \in {Undefined, "empty"} THEN "RPC error" ELSE r.message

\* the latest attempt of call c was its first failure
FirstFailure(c) == Failed(c) <= 1

\* C3: once an attempt has received a 2xx body carrying an error object, the call
\* has raised the application error with the body's message and is not retried:
\* when no earlier attempt failed, exactly 1 HTTP attempt was made.
C3_AppErrorNotRetried ==
    \A c \in Calls : AppErrorBody(res[c]) =>
        /\ pc[c] = "raised"
        /\ outcome[c] = Rejected(Err("Error", AppMsg(res[c])))
        /\ FirstFailure(c) => attempts[c] = 1

\* r is a non-2xx response whose status is none of 429, 403, 503
OtherStatus(r) == r.kind \in {"json", "null", "malformed"} /\ ~ResOk(r) /\ r.status \notin {429, 403, 503}

\* C4: once an attempt has received a non-2xx status outside {429, 403, 503}, the
\* call has raised a failure naming the method and the status and is not retried:
\* when no earlier attempt failed, exactly 1 HTTP attempt was made.
C4_OtherStatusNotRetried ==
    \A c \in Calls : OtherStatus(res[c]) =>
        /\ pc[c] = "raised"
        /\ outcome[c] = Rejected(Err("Error", "RPC " \o method[c] \o " failed " \o ToString(res[c].status)))
        /\ FirstFailure(c) => attempts[c] = 1

\* r is a 2xx response whose body is not JSON
MalformedBody(r) == ResOk(r) /\ r.kind = "malformed"

\* C10: once an attempt has received a 2xx response with a malformed JSON body,
\* the call has raised the parse error and is not retried: when no earlier attempt
\* failed, exactly 1 HTTP attempt was made.
C10_ParseErrorNotRetried ==
    \A c \in Calls : MalformedBody(res[c]) =>
        /\ pc[c] = "raised"
        /\ outcome[c] = Rejected(lastErr[c])
        /\ FirstFailure(c) => attempts[c] = 1

\* the messages of the rate/service errors
RateMsgs == {RateMsg(429), RateMsg(403), RateMsg(503)}

\* the latest attempt of call c was answered 429, 403 or 503
GotRetryable(c) == res[c].kind # "none" /\ res[c].kind # "netfail" /\ res[c].status \in {429, 403, 503}

\* every attempt of call c failed, each on a status of 429, 403 or 503
AllFailedRetryable(c) == Failed(c) = AttemptBudget /\ BagToSet(errors[c]) \subseteq RateMsgs

\* a rate/service failure reaches the caller only once the budget is used up;
\* before that the call is in its delay or in the next attempt
C6_OnlyAfterBudget ==
    \A c \in Calls :
        /\ (pc[c] = "raised" /\ outcome[c].error.message \in RateMsgs) => attempts[c] = AttemptBudget
        /\ GotRetryable(c) =>
              /\ pc[c] # "returned"
              /\ pc[c] = "raised" <=> Failed(c) = AttemptBudget
        /\ pc[c] = "backoff" => attempts[c] < AttemptBudget

\* a delay ends in the next attempt and in nothing else
C6_DelayThenAttempt ==
    \A c \in Calls : (pc[c] = "backoff" /\ pc'[c] # "backoff") =>
        pc'[c] = "fetch" /\ attempts'[c] = attempts[c] + 1

\* a delay does end
C6_DelayEnds == \A c \in Calls : (pc[c] = "backoff") ~> (pc[c] = "fetch")

\* C6 as claimed: a rate/service failure is surfaced only after the budget is
\* exhausted, and when every attempt has failed the call has raised the error of
\* its last attempt.
C6_RaisesLastError ==
    /\ C6_OnlyAfterBudget
    /\ \A c \in Calls : AllFailedRetryable(c) =>
          /\ pc[c] = "raised"
          /\ outcome[c] = Rejected(lastErr[c])

\* the error raised by c occurred at least as often as every error of an attempt
MostFrequent(c) ==
    /\ outcome[c].error.message \in BagToSet(errors[c])
    /\ \A m \in BagToSet(errors[c]) :
          CopiesIn(m, errors[c]) <= CopiesIn(outcome[c].error.message, errors[c])

C6_RaisesMain ==
    \A c \in Calls : AllFailedRetryable(c) =>
        /\ pc[c] = "raised"
        /\ outcome[c].kind = "error"
        /\ outcome[c].error.name = "Error"
        /\ MostFrequent(c)
        /\ (\A m \in BagToSet(errors[c]) :
                CopiesIn(m, errors[c]) <= CopiesIn(lastErr[c].message, errors[c]))
              => outcome[c] = Rejected(lastErr[c])

\* C6 (amended): a rate/service failure is surfaced only after the budget is
\* exhausted; while attempts remain it is followed by a delay and then the next
\* attempt; when every attempt has failed the call has raised, and the error
\* raised is the one that occurred most often among the attempts, which is the
\* last attempt's error whenever no other error occurred more often.
C6_RaisesMostFrequent ==
    /\ [](C6_OnlyAfterBudget /\ C6_RaisesMain)
    /\ [][C6_DelayThenAttempt]_vars
    /\ C6_DelayEnds

\* C6 witness: ten 429 answers and a final 503: the call raises the 429 error
C6_Witness ==
    \E c \in Calls :
        /\ AllFailedRetryable(c)
        /\ pc[c] = "raised"
        /\ lastErr[c].message = RateMsg(503)
        /\ outcome[c].error.message = RateMsg(429)

\* C7: an attempt answered 429, 403 or 503 throws the rate/service error of that
\* status whatever the body holds (a result, an error object, no JSON at all):
\* nothing is returned from it, the error is recorded by the retry operation, and
\* the call raises only if that was the last attempt of the budget.
C7_RetryableWhateverBody ==
    \A c \in Calls : GotRetryable(c) =>
        /\ lastErr[c] = Err("Error", RateMsg(res[c].status))
        /\ CopiesIn(RateMsg(res[c].status), errors[c]) >= 1
        /\ outcome[c].kind # "value"
        /\ pc[c] \in {"backoff", "fetch", "raised"}
        /\ pc[c] = "raised" => attempts[c] = AttemptBudget

\* C7 witness: a 503 whose body carries an error object is waiting for its retry
C7_Witness ==
    \E c \in Calls :
        /\ pc[c] = "backoff"
        /\ res[c].status = 503
        /\ res[c].error = "obj"
        /\ lastErr[c].message = RateMsg(503)

\* r is a 2xx response with a JSON object as body
ObjectBody(r) == ResOk(r) /\ r.kind = "json"

\* C8 as claimed: a 2xx body whose error field is not null (0, false and the empty
\* string included) makes the attempt throw an application error instead of
\* returning result; its message is error.message when present, else "RPC error".
C8_NonNullErrorRaises ==
    \A c \in Calls : (ObjectBody(res[c]) /\ res[c].error \notin {Undefined, "null"}) =>
        /\ pc[c] # "returned"
        /\ outcome[c].kind # "value"
        /\ lastErr[c] = Err("Error", IF res[c].error = "obj" /\ res[c].message # Undefined
                                     THEN res[c].message ELSE "RPC error")

\* C8 (amended): a 2xx body whose error field is truthy (an object, a non-empty
\* string) makes the attempt throw an application error instead of returning
\* result, bodies carrying both included; its message is error.message when that
\* is a non-empty string, else "RPC error".  A body whose error field is absent,
\* null, 0, false or the empty string makes the attempt return result.
C8_TruthyErrorRaises ==
    \A c \in Calls : ObjectBody(res[c]) =>
        IF res[c].error \in {"obj", "oops"}
        THEN /\ pc[c] # "returned"
             /\ outcome[c].kind # "value"
             /\ lastErr[c] = Err("Error", IF res[c].error = "obj" /\ res[c].message = "boom"
                                          THEN "boom" ELSE "RPC error")
        ELSE /\ pc[c] = "returned"
             /\ outcome[c] = Fulfilled(res[c].result)

\* C8 witness: a body with both result and error has thrown; so has one without
\* error.message
C8_Witness ==
    \E c \in Calls :
        /\ pc[c] = "backoff"
        /\ Failed(c) >= 2
        /\ CopiesIn("boom", errors[c]) >= 1
        /\ CopiesIn("RPC error", errors[c]) >= 1
        /\ ObjectBody(res[c]) /\ res[c].result = "r1" /\ res[c].error = "obj"

\* C9 as claimed: a returned value is the result field of the body of the last
\* attempt, which had a 2xx status and no error field (absent or null).
C9_ResultNoErrorField ==
    \A c \in Calls : pc[c] = "returned" =>
        /\ outcome[c] = Fulfilled(res[c].result)
        /\ ObjectBody(res[c])
        /\ res[c].error \in {Undefined, "null"}

\* C9 (amended): a returned value is the result field of the body of the call's
\* last attempt, which had a 2xx status and no truthy error field (error absent,
\* null, 0, false or the empty string); the call has then raised nothing.
C9_ResultOfLastAttempt ==
    \A c \in Calls :
        /\ pc[c] = "returned" =>
              /\ outcome[c] = Fulfilled(res[c].result)
              /\ ObjectBody(res[c])
              /\ res[c].error \in {Undefined, "null", "0", "false", "empty"}
              /\ lastErr[c] = NoError
        /\ outcome[c].kind = "value" => pc[c] = "returned"

\* C9 witness: after failed attempts the call returned the last body's result
C9_Witness ==
    \E c \in Calls :
        /\ pc[c] = "returned"
        /\ attempts[c] > 2
        /\ res[c].status = 201
        /\ outcome[c] = Fulfilled("r2")

\* ---- C11

\* the error node-fetch rejects with when the request fails at network level
NetworkFailure == Err("FetchError", "request failed")

\* the latest attempt of call c failed at network level
NetFailed(c) == res[c].kind = "netfail"

\* after an attempt that failed at network level the error is recorded for a
\* retry, the call waits for its next attempt while the budget lasts, and it
\* raises only when the budget is used up
C11_NetFailureRecorded ==
    \A c \in Calls : NetFailed(c) =>
        /\ lastErr[c] = NetworkFailure
        /\ CopiesIn(NetworkFailure.message, errors[c]) >= 1
        /\ pc[c] \in {"backoff", "fetch", "raised"}
        /\ pc[c] = "backoff" => attempts[c] < AttemptBudget
        /\ pc[c] = "raised" => attempts[c] = AttemptBudget /\ Failed(c) = AttemptBudget

\* the delay after a network failure ends in one further attempt
C11_DelayThenAttempt ==
    \A c \in Calls : (NetFailed(c) /\ pc[c] = "backoff" /\ pc'[c] # "backoff") =>
        pc'[c] = "fetch" /\ attempts'[c] = attempts[c] + 1

\* the call goes on until an attempt succeeds or the budget is used up
C11_UntilSuccessOrBudget ==
    \A c \in Calls :
        (NetFailed(c) /\ pc[c] = "backoff") ~>
            \/ pc[c] = "returned"
            \/ pc[c] = "raised" /\ attempts[c] = AttemptBudget

\* C11: when fetch fails at network level during an attempt, the error is
\* retried: the call makes further attempts until one succeeds or the attempt
\* budget is exhausted.
C11_NetworkFailureRetried ==
    /\ [](C11_NetFailureRecorded)
    /\ [][C11_DelayThenAttempt]_vars
    /\ C11_UntilSuccessOrBudget

\* a call returned after two attempts that failed at network level
C11_Witness ==
    \E c \in Calls :
        /\ pc[c] = "returned"
        /\ attempts[c] = 3
        /\ CopiesIn(NetworkFailure.message, errors[c]) = 2

\* ---- C12

\* the delays slept by call c so far are as many as its retries
DelaysCounted(c) ==
    /\ pc[c] = "fetch" => Len(slept[c]) = attempts[c] - 1
    /\ pc[c] = "backoff" => Len(slept[c]) = attempts[c]
    /\ pc[c] \in {"fetch", "backoff"} => Len(slept[c]) + Len(timeouts[c]) = Retries

\* C12: within one call the delays between consecutive attempts are
\* non-decreasing in attempt order and each is at most maxDelay (8000 ms), with
\* jitter enabled.
C12_DelaysNonDecreasingBounded ==
    \A c \in Calls :
        /\ RETRY.randomize
        /\ DelaysCounted(c)
        /\ \A i \in 1..Len(slept[c]) : slept[c][i] <= 8000
        /\ \A i \in 1..(Len(slept[c]) - 1) : slept[c][i] <= slept[c][i + 1]

\* a call slept before each of its ten retries, from a jittered first delay up
\* to the cap
C12_Witness ==
    \E c \in Calls :
        /\ Len(slept[c]) = Retries
        /\ slept[c][1] > 500
        /\ slept[c][1] < slept[c][2]
        /\ slept[c][Retries] = 8000

\* ---- C13

\* min(maxDelay, minDelay * factor^(attempt-1)) for retry number `attempt`
NominalDelay(attempt) ==
    Min(RETRY.maxTimeout, RETRY.minTimeout * Pow(RETRY.factor, attempt - 1))

\* C13 as stated: the delay before retry number `attempt` is
\* min(maxDelay, minDelay * factor^(attempt-1)), and with jitter enabled the
\* randomized delay stays within that bound.
C13_DelayWithinNominal ==
    \A c \in Calls : \A attempt \in 1..Len(slept[c]) :
        /\ slept[c][attempt] <= NominalDelay(attempt)
        /\ ~RETRY.randomize => slept[c][attempt] = NominalDelay(attempt)

\* C13: with jitter enabled the delay before retry number `attempt` is at least
\* min(maxDelay, minDelay * factor^(attempt-1)) and at most
\* min(maxDelay, 2 * minDelay * factor^(attempt-1)): the exponential term is
\* multiplied by a random factor between 1 and 2 before it is capped, so the
\* delay equals the nominal one once that has reached maxDelay (retry 5 on).
C13_DelayBetweenNominalAndTwice ==
    \A c \in Calls : \A attempt \in 1..Len(slept[c]) :
        /\ slept[c][attempt] >= NominalDelay(attempt)
        /\ slept[c][attempt] <= Min(RETRY.maxTimeout, 2 * RETRY.minTimeout * Pow(RETRY.factor, attempt - 1))
        /\ NominalDelay(attempt) = RETRY.maxTimeout => slept[c][attempt] = RETRY.maxTimeout

\* a call slept the nominal first delay, then nearly twice the nominal second
\* delay, and the capped delay before its fifth retry
C13_Witness ==
    \E c \in Calls :
        /\ Len(slept[c]) >= 5
        /\ slept[c][1] = 500
        /\ slept[c][2] = 1999
        /\ slept[c][5] = 8000

\* ---- C14

\* the calls whose request is sent and not yet answered
InFlight == { c \in Calls : pc[c] = "fetch" }

\* C14: at every moment the JSON-RPC ids of all requests in flight are pairwise
\* distinct, those of concurrently running calls and of successive retries
\* included.
C14_InFlightIdsDistinct ==
    \A c, d \in InFlight : c # d => RequestId(c) # RequestId(d)

\* ---- C15

\* everything the model keeps of call c
CallState(c) ==
    <<pc[c], method[c], transport[c], attempts[c], errors[c], mainErr[c], res[c],
      lastErr[c], outcome[c]>>

\* a step that changes something of one call leaves every other call as it was
C15_OneCallPerStep ==
    \A c, d \in Calls : (c # d /\ CallState(c)' # CallState(c)) => CallState(d)' = CallState(d)

\* the answer the transport of call c gives to every attempt
Answer(c) == CHOOSE r \in transport[c] : TRUE

\* how call c ends when it runs alone against its transport: a result after one
\* attempt, or the transport's error after the whole budget
C15_OwnTransportDecides ==
    \A c \in Calls : pc[c] \in {"returned", "raised"} =>
        LET a == Attempt(method[c], Answer(c))
        IN  /\ Cardinality(transport[c]) = 1
            /\ a.ok => outcome[c] = Fulfilled(Answer(c).result) /\ attempts[c] = 1
            /\ ~a.ok => outcome[c] = Rejected(a.error) /\ attempts[c] = AttemptBudget

\* C15: for concurrently running calls with their own transports, under every
\* interleaving of their attempts and delays, the outcome and the attempt count
\* of each call depend only on the answers of its own transport: a failure,
\* retry or delay of one call changes nothing of another.
C15_CallsDoNotInterfere ==
    /\ [](C15_OwnTransportDecides)
    /\ [][C15_OneCallPerStep]_vars

\* one call returned at its first attempt while another, started against a
\* rate-limiting transport, is in the delay before its last attempt
C15_Witness ==
    \E c, d \in Calls :
        /\ c # d
        /\ transport[c] # transport[d]
        /\ pc[c] = "returned" /\ attempts[c] = 1
        /\ pc[d] = "backoff" /\ attempts[d] = Retries

\* ---- C16

\* a call whose request is in flight can be answered, and one whose timer is
\* pending can have it fire, whatever the other calls are doing
C16_NeverBlocked ==
    \A c \in Calls :
        /\ pc[c] = "fetch" => ENABLED (\E r \in Responses : Respond(c, r))
        /\ pc[c] = "backoff" => ENABLED Timer(c)
        /\ pc[c] = "idle" => ENABLED (\E T \in ConcurrentTransports : Start(c, "eth_call", T))

\* the first call completes even when the delays of the others never end
C16_FirstCallCompletes ==
    (pc[1] \in {"fetch", "backoff"}) ~> (pc[1] \in {"returned", "raised"})

\* C16: while one call is suspended in the delay between two attempts, any other
\* concurrent call of the process can still issue attempts and complete: a
\* pending retry delay of one call never prevents progress of another.
C16_DelayDoesNotBlockOthers ==
    /\ [](C16_NeverBlocked)
    /\ C16_FirstCallCompletes

\* the first call is at its last attempt while another call is still in the
\* delay after its first attempt
C16_Witness ==
    \E d \in Calls :
        /\ d # 1
        /\ pc[d] = "backoff" /\ attempts[d] = 1
        /\ pc[1] = "fetch" /\ attempts[1] = AttemptBudget

\* ---- C17

\* call c has just been started: its first request is in flight
JustStarted(c) == pc[c] = "fetch" /\ attempts[c] = 1

\* whatever the latest settled call left, a call starts with no error recorded,
\* all its retries ahead of it and a first delay drawn from the initial range;
\* it raises only after the whole budget
C17_FreshStart ==
    \A c \in Calls :
        /\ JustStarted(c) =>
              /\ errors[c] = EmptyBag /\ mainErr[c] = NoError
              /\ slept[c] = << >>
              /\ Len(timeouts[c]) = Retries
              /\ timeouts[c][1] >= RETRY.minTimeout
              /\ timeouts[c][1] <= 2 * RETRY.minTimeout
        /\ pc[c] = "raised" => attempts[c] = AttemptBudget

\* no step of a call changes the configuration, the params or the retry options
C17_ObjectsUnchanged ==
    /\ objects' = objects
    /\ objects.cfg = Cfg /\ objects.RETRY = RETRY

\* C17: calls made one after another are independent: a call starts with the
\* full attempt budget and the initial backoff delay whatever the number of
\* failed attempts, the delays and the outcome of earlier calls, and a call
\* leaves its configuration (endpoint, API key), its params and the retry
\* policy unchanged.
C17_SequentialCallsIndependent ==
    /\ [](C17_FreshStart)
    /\ [][C17_ObjectsUnchanged]_vars

\* a call has just been started after a call that failed eleven times and
\* raised
C17_Witness ==
    \E c \in Calls :
        /\ JustStarted(c)
        /\ earlier = [failed |-> AttemptBudget, kind |-> "error"]
        /\ Len(timeouts[c]) = Retries
        /\ timeouts[c][1] = 500

\* ---- C18

\* the error the caller of call c catches: p-retry decorates the error of each
\* failed attempt with attemptNumber and retriesLeft
Caught(c) ==
    [name |-> outcome[c].error.name, message |-> outcome[c].error.message,
     attemptNumber |-> attempts[c], retriesLeft |-> Retries - (attempts[c] - 1)]

\* what a caller catches when the retries are exhausted on a retryable status
ExhaustedRetryErrors ==
    { [name |-> "Error", message |-> RateMsg(st), attemptNumber |-> AttemptBudget, retriesLeft |-> 0] :
        st \in {429, 403, 503} }

\* a 2xx answer that is a JSON-RPC error object or is not JSON
PermanentFailure(r) ==
    ResOk(r) /\ (r.kind = "malformed" \/ (r.kind = "json" /\ Truthy(r.error)))

\* a call settles with one value or one error
SettledOnce(c) ==
    /\ pc[c] = "returned" => outcome[c].kind = "value" /\ outcome[c].error = NoError
    /\ pc[c] = "raised" => outcome[c].kind = "error" /\ outcome[c].value = Undefined
    /\ pc[c] \in {"idle", "fetch", "backoff"} => outcome[c] = Pending

\* C18: the terminal error distinguishes a temporary failure (retries exhausted
\* on a retryable status) from a permanent one (application or parse error): no
\* call whose attempts all ended in an application or parse error raises an
\* error the caller cannot tell apart from an exhausted-retry error, and each
\* call settles exactly once with one value or one error.
C18_PermanentTellsApart ==
    \A c \in Calls :
        /\ SettledOnce(c)
        /\ (pc[c] = "raised" /\ \A r \in transport[c] : PermanentFailure(r)) =>
              Caught(c) \notin ExhaustedRetryErrors

\* the part of C18 that holds: each call settles with one value or one error
C18_SettlesOnce == \A c \in Calls : SettledOnce(c)

\* ---- C19

\* the place of the decimal point in str, 0 when it has none
PointAt(str) ==
    IF \E i \in 1..Len(str) : CharAt(str, i) = "."
    THEN CHOOSE i \in 1..Len(str) : CharAt(str, i) = "."
    ELSE 0

\* str is a non-empty string of decimal digits
IsDecimal(str) ==
    /\ str # ""
    /\ \A i \in 1..Len(str) : \E v \in 0..9 : CharAt(str, i) = ToString(v)

\* the whole part of a decimal string
WholePart(str) == IF PointAt(str) = 0 THEN str ELSE SubSeq(str, 1, PointAt(str) - 1)

\* the fractional part of a decimal string read at dec digits
FractionAt(str, dec) ==
    LET digits == IF PointAt(str) = 0 THEN "" ELSE SubSeq(str, PointAt(str) + 1, Len(str))
    IN  digits \o Repeat("0", dec - Len(digits))

\* str denotes m / 10^dec: whole * 10^dec + fraction = m
Denotes(str, dec, m) ==
    /\ IsDecimal(WholePart(str))
    /\ Len(FractionAt(str, dec)) = dec
    /\ dec > 0 => IsDecimal(FractionAt(str, dec))
    /\ LET whole == ParseDigits(WholePart(str), 10)
           fraction == ParseDigits(FractionAt(str, dec), 10)
       IN  /\ IsBigInt(whole) /\ IsBigInt(fraction)
           /\ BigAdd(Norm(whole \o [i \in 1..dec |-> 0]), fraction) = m

\* C19: round trip of the formatter: for every valid hexadecimal string with
\* magnitude m and every decimals d >= 0, the decimal string produced denotes
\* exactly m / 10^d: its whole part times 10^d plus its fractional part read at
\* d digits is m.
C19_RoundTrip ==
    LET m == HexToBigInt(hex)
    IN  /\ IsBigInt(m)
        /\ formatted # Undefined => Denotes(formatted, decimals, m)
        /\ ether # Undefined => Denotes(ether, 18, m)

\* 10^18 + 1 formatted at 18 decimals
C19_Witness ==
    /\ hex = "0xde0b6b3a7640001"
    /\ decimals = 18
    /\ formatted = "1.000000000000000001"
    /\ ether = "1.000000000000000001"

\* ---- C20

RECURSIVE HexToNat(_)
\* the number a short string of hexadecimal digits denotes
HexToNat(str) ==
    IF str = "" THEN 0
    ELSE 16 * HexToNat(SubSeq(str, 1, Len(str) - 1)) + HexDigitValue(CharAt(str, Len(str)))

\* the magnitude of an input in decimal notation: computed for the short
\* inputs, written out for the large ones
DecimalOf(str) ==
    CASE str = "0x20000000000000" -> "9007199254740992"
      [] str = "0x20000000000001" -> "9007199254740993"
      [] str = "0x16345785d8a0000" -> "100000000000000000"
      [] str = "0x0de0b6b3a763ffff" -> "999999999999999999"
      [] str = "0xde0b6b3a7640000" -> "1000000000000000000"
      [] str = "0xde0b6b3a7640001" -> "1000000000000000001"
      [] str = "0x22b1c8c1227a0000" -> "2500000000000000000"
      [] str = "0xffffffffffffffff" -> "18446744073709551615"
      [] OTHER -> ToString(HexToNat(SubSeq(str, 3, Len(str))))

\* the reference on a magnitude m in decimal notation: whole = m div 10^dec is m
\* without its last dec digits, remainder = m mod 10^dec left-padded to dec
\* digits is the last dec digits of m behind zeros, and the fraction is the
\* padded remainder up to its last digit that is not 0
Reference(m, dec) ==
    LET whole == IF Len(m) > dec THEN SubSeq(m, 1, Len(m) - dec) ELSE "0"
        padded == IF Len(m) > dec THEN SubSeq(m, Len(m) - dec + 1, Len(m))
                  ELSE Repeat("0", dec - Len(m)) \o m
        last == IF \E i \in 1..dec : CharAt(padded, i) # "0"
                THEN CHOOSE i \in 1..dec :
                        /\ CharAt(padded, i) # "0"
                        /\ \A j \in (i + 1)..dec : CharAt(padded, j) = "0"
                ELSE 0
        fraction == SubSeq(padded, 1, last)
    IN  IF fraction = "" THEN whole ELSE whole \o "." \o fraction

\* C20: for every magnitude m and decimals d the formatter's output equals the
\* reference: whole = m div 10^d, remainder = m mod 10^d, fraction = remainder
\* left-padded with zeros to d digits and right-trimmed of zeros; the output is
\* "{whole}" when the trimmed fraction is empty and "{whole}.{fraction}"
\* otherwise (0 at 18 decimals gives "0", 10^18 at 18 decimals gives "1", and 1
\* at 6 decimals gives "0.000001").
C20_EqualsReference ==
    /\ formatted # Undefined => formatted = Reference(DecimalOf(hex), decimals)
    /\ ether # Undefined => ether = Reference(DecimalOf(hex), 18)
    /\ (hex = "0x0" /\ decimals = 18 /\ formatted # Undefined) => formatted = "0"
    /\ (hex = "0xde0b6b3a7640000" /\ decimals = 18 /\ formatted # Undefined) => formatted = "1"
    /\ (hex = "0x1" /\ decimals = 6 /\ formatted # Undefined) => formatted = "0.000001"

\* 1 formatted at 6 decimals, and as wei
C20_Witness ==
    /\ hex = "0x1"
    /\ decimals = 6
    /\ formatted = "0.000001"
    /\ ether = "0.000000000000000001"

\* ---- C21

\* the digits behind the decimal point of str, none when it has no point
FractionDigits(str) ==
    IF PointAt(str) = 0 THEN "" ELSE SubSeq(str, PointAt(str) + 1, Len(str))

\* the last dec digits of the magnitude m in decimal notation are all zeros
\* (m is a multiple of 10^dec)
AllZeroTail(m, dec) ==
    \A i \in 1..dec : i <= Len(m) => CharAt(m, Len(m) + 1 - i) = "0"

\* str has no decimal point when the fraction of m at dec digits is all zeros,
\* and otherwise a fraction of 1 to dec digits whose last digit is not 0
FractionTrimmed(str, dec, m) ==
    LET fraction == FractionDigits(str)
    IN  IF AllZeroTail(m, dec)
        THEN PointAt(str) = 0
        ELSE /\ PointAt(str) > 0
             /\ Len(fraction) \in 1..dec
             /\ CharAt(fraction, Len(fraction)) # "0"

\* C21: for every magnitude and decimals the formatter never returns a
\* fractional part ending in the digit 0: when the fractional part would be all
\* zeros the decimal point and the fraction are omitted, otherwise the last
\* fractional digit is not zero and the fraction has between 1 and decimals
\* digits.
C21_NoTrailingZero ==
    /\ formatted # Undefined => FractionTrimmed(formatted, decimals, DecimalOf(hex))
    /\ ether # Undefined => FractionTrimmed(ether, 18, DecimalOf(hex))

\* 0x64 = 100 at 3 decimals is 0.100, returned as 0.1, and 100 wei keeps its
\* sixteen zeros before the 1 and loses the two behind it
C21_Witness ==
    /\ hex = "0x64"
    /\ decimals = 3
    /\ formatted = "0.1"
    /\ ether = "0.0000000000000001"

\* ---- C22

\* C22: with decimals = 0 the formatter returns the decimal rendering of the
\* magnitude itself with no decimal point, for every magnitude including those
\* ending in zeros: 0x64 with 0 decimals gives "100".
C22_ZeroDecimalsIsMagnitude ==
    (decimals = 0 /\ formatted # Undefined) =>
        /\ formatted = DecimalOf(hex)
        /\ PointAt(formatted) = 0
        /\ hex = "0x64" => formatted = "100"

\* 0x64 formatted at 0 decimals
C22_Witness ==
    /\ hex = "0x64"
    /\ decimals = 0
    /\ formatted = "100"

\* ---- C23

\* str without the prefix 0x
Unprefixed(str) == IF HasHexPrefix(str) THEN SubSeq(str, 3, Len(str)) ELSE str

\* str is a valid hexadecimal string, bare or behind 0x
IsHex(str) == Unprefixed(str) # "" /\ IsDigits(Unprefixed(str), 16)

\* what the contract gives for str at dec decimals: the base-16 magnitude
\* formatted, or a parse error
Contract(str, dec) ==
    IF IsHex(str) THEN Reference(ToString(HexToNat(Unprefixed(str))), dec) ELSE SyntaxError

\* C23: the formatter's parser reads a 0x-prefixed and a bare hexadecimal
\* string as the same base-16 magnitude, and fails with a parse error on every
\* string that is not valid hexadecimal (0x without digits, the empty string,
\* strings with other characters) instead of producing a magnitude.
C23_ParsesHexOrFails ==
    /\ formatted # Undefined => formatted = Contract(hex, decimals)
    /\ ether # Undefined => ether = Contract(hex, 18)

\* the 0x-prefixed half of C23 holds: a prefixed string of hexadecimal digits is
\* read in base 16, and 0x without digits and strings with other characters
\* are refused
C23_PrefixedParsesOrFails ==
    (HasHexPrefix(hex) \/ ~IsDigits(Unprefixed(hex), 16)) =>
        /\ formatted # Undefined => formatted = Contract(hex, decimals)
        /\ ether # Undefined => ether = Contract(hex, 18)

\* ---- C24

\* the decimals a short result of the decimals call denotes
ChainDecimals(str) == HexToNat(Significant(Unprefixed(str)))

\* C24: the conversion from hexadecimal to the decimal string is exact for
\* magnitudes of 2^53 and more: no step of get_native_balance or
\* get_token_balance, the reading of the decimals value included, passes the
\* magnitude or the base through a fixed-width or floating-point number, so
\* every digit of the result is that of the exact quotient and remainder.
C24_ExactAboveTwoTo53 ==
    /\ ether # Undefined => ether = Reference(DecimalOf(hex), 18)
    /\ formatted # Undefined =>
          IF hexDec \in HugeDecimalsResults THEN formatted = RangeError
          ELSE IF hexDec = "0x" THEN decimals = 18 /\ formatted = Reference(DecimalOf(hex), 18)
          ELSE /\ decimals = ChainDecimals(hexDec)
               /\ formatted = Reference(DecimalOf(hex), ChainDecimals(hexDec))

\* 2^64 - 1 at the 6 decimals read from the chain, and as wei
C24_Witness ==
    /\ hex = "0xffffffffffffffff"
    /\ hexDec = "0x6"
    /\ decimals = 6
    /\ formatted = "18446744073709.551615"
    /\ ether = "18.446744073709551615"

\* ---- C25

\* the requests that the calls of the tool under way have sent to the gateway
Sent == UNION { { requests[c][i] : i \in 1..Len(requests[c]) } : c \in Calls }

\* rpc_call was handed a method outside the allow-list
Refused == tool.name = "rpc_call" /\ tool.method \notin ALLOW_METHODS

\* every request sent carries an allowed method, and a refused rpc_call has
\* raised 'Method not allowed' with no call made and no request sent
C25_AllowedOnly ==
    /\ \A q \in Sent : q.body.method \in ALLOW_METHODS
    /\ Refused =>
          /\ tool.at = "settled"
          /\ tool.outcome = Rejected(Err("Error", "Method not allowed"))
          /\ \A c \in Calls : pc[c] = "idle" /\ attempts[c] = 0 /\ requests[c] = << >>

\* the step in which rpc_call is handed a method outside the allow-list sends
\* nothing and starts no call
C25_RefusalSendsNothing ==
    (tool.at = "idle" /\ tool'.name = "rpc_call" /\ tool'.method \notin ALLOW_METHODS)
        => UNCHANGED <<rpcVars, requests, closure>>

\* C25: only approved RPC methods can be called: after any sequence of tool
\* invocations every JSON-RPC request sent to the gateway carries a method of
\* the allow-list, and an rpc_call whose method is outside the allow-list
\* raises 'Method not allowed' and sends no HTTP request at all.
C25_OnlyApprovedMethods == [](C25_AllowedOnly) /\ [][C25_RefusalSendsNothing]_vars

\* rpc_call was handed eth_sendRawTransaction and has refused it
C25_Witness ==
    /\ tool.name = "rpc_call"
    /\ tool.method = "eth_sendRawTransaction"
    /\ tool.outcome = Rejected(Err("Error", "Method not allowed"))
    /\ Sent = {}

\* ---- C26

\* the requests of call c that were answered or failed: one for each failure
\* recorded, and the one that settled the call without a record
RequestsAnswered(c) ==
    BagCardinality(errors[c])
      + (IF pc[c] = "returned" \/ (pc[c] = "raised" /\ Unrecoverable(lastErr[c]))
         THEN 1 ELSE 0)

\* the requests of call c that are in flight
RequestsInFlight(c) == Len(requests[c]) - RequestsAnswered(c)

\* a request of a call is in flight exactly while the call awaits its fetch, and
\* every attempt sent one request
C26_OneInFlight ==
    \A c \in Calls :
        /\ RequestsInFlight(c) = (IF pc[c] = "fetch" THEN 1 ELSE 0)
        /\ Len(requests[c]) = attempts[c]

\* a step that sends a request of call c sends one; the call has not settled,
\* and unless the request is the first of the call, the attempt before has
\* failed and the call waited in its backoff
C26_IssuedInTurn ==
    \A c \in Calls :
        Len(requests'[c]) > Len(requests[c]) =>
            /\ Len(requests'[c]) = Len(requests[c]) + 1
            /\ pc[c] \notin {"returned", "raised"}
            /\ Len(requests[c]) > 0 =>
                  /\ pc[c] = "backoff"
                  /\ RequestsInFlight(c) = 0
                  /\ lastErr[c] # NoError
                  /\ BagCardinality(errors[c]) = Len(requests[c])

\* C26: within one tatumRpc call the attempts are strictly sequential: at most
\* one HTTP request of the call is in flight at any time, attempt n+1 is issued
\* only after attempt n has failed and its backoff delay has elapsed, and no
\* attempt is issued after the call has returned or raised.
C26_AttemptsSequential == [](C26_OneInFlight) /\ [][C26_IssuedInTurn]_vars

\* a call sent three requests one after the other and returned on the third
C26_Witness ==
    \E c \in Calls :
        /\ Len(requests[c]) = 3
        /\ BagCardinality(errors[c]) = 2
        /\ pc[c] = "returned"

\* ---- C27

\* the params a tool hands to tatumRpc
ParamsOf(t, c) ==
    CASE t.name = "rpc_call" -> <<"params">>
      [] t.name = "get_token_balance" -> (IF c = 1 THEN BalCall ELSE DecCall)
      [] t.name \in DOMAIN FixedTools -> FixedTools[t.name].params
      [] OTHER -> << >>

\* request q is the request of call c: a POST to the gateway of the configured
\* chain, with the configured API key and the body of the call's method
RequestOf(c, q) ==
    /\ q.url = Url(Cfg)
    /\ q.method = "POST"
    /\ q.contentType = "application/json"
    /\ q.apiKey = Cfg.tatumApiKey
    /\ q.body.jsonrpc = "2.0"
    /\ q.body.id = RequestId(c)
    /\ q.body.method = method[c]
    /\ q.body.params = ParamsOf(tool, c)

\* C27: every attempt of one tatumRpc call sends the identical request: the
\* same endpoint, the same API-key header value passed through unchanged, and
\* the same body (jsonrpc "2.0", id, method, params); a retry never alters the
\* method, the params or the credential.
C27_IdenticalRequests ==
    \A c \in Calls : \A i \in 1..Len(requests[c]) :
        /\ requests[c][i] = requests[c][1]
        /\ RequestOf(c, requests[c][i])

\* a call retried twice: three requests were sent
C27_Witness ==
    \E c \in Calls :
        /\ attempts[c] = 3
        /\ Len(requests[c]) = 3
        /\ requests[c][3].body.method = "eth_getLogs"

\* ---- C28

\* C28: the two copies of the formatting code agree: for every hexadecimal
\* input h, weiToEtherString(h) (the ether field of get_native_balance) equals
\* the string the inline formatter of get_token_balance produces for h with
\* decimals = 18.
C28_CopiesAgree ==
    /\ ether # Undefined => ether = TokenFormatted(hex, NatBig(18))
    /\ (decimals = 18 /\ ether # Undefined /\ formatted # Undefined) => ether = formatted

\* 10^18 + 1 wei formatted by both copies, with a fraction of eighteen digits
C28_Witness ==
    /\ hex = "0xde0b6b3a7640001"
    /\ decimals = 18
    /\ ether = "1.000000000000000001"
    /\ formatted = "1.000000000000000001"

\* ---- C29

\* get_token_balance is the tool under way
TokenTool == tool.name = "get_token_balance"

\* call c has raised with its retries used up
Exhausted(c) == pc[c] = "raised" /\ ~RetriesLeft(attempts[c])

\* call c has raised at once, on an error pRetry does not retry
Aborted(c) == pc[c] = "raised" /\ Unrecoverable(lastErr[c])

\* the decimals call is issued only once the balance call has returned; when
\* the balance call has raised the handler throws its error and no request of
\* a decimals call is ever sent
BalanceFirst ==
    TokenTool =>
        /\ requests[2] # << >> => pc[1] = "returned" /\ hex = outcome[1].value
        /\ pc[1] = "raised" => requests[2] = << >> /\ pc[2] = "idle"
        /\ (tool.at = "settled" /\ pc[1] = "raised") => tool.outcome = outcome[1]

\* the handler has ended after its decimals call raised
DecimalsFailed == TokenTool /\ tool.at = "settled" /\ pc[2] = "raised"

\* the handler returned the balance formatted at 18 decimals
FormattedAtDefault ==
    /\ tool.outcome.kind = "value"
    /\ decimals = 18
    /\ formatted = FormatUnits(HexToBigInt(hex), 18)
    /\ tool.outcome.value = formatted

\* C29 as stated: in get_token_balance the balance call is completed before
\* the decimals call is issued: if the balance call fails (after its retries)
\* the tool fails and the decimals call is never issued; if the decimals call
\* fails (only after its own retries are exhausted) the failure is swallowed,
\* the tool still succeeds, and the balance is formatted with decimals = 18.
C29_DecimalsFailureSucceeds ==
    /\ BalanceFirst
    /\ (TokenTool /\ pc[1] = "raised") => Exhausted(1)
    /\ DecimalsFailed => Exhausted(2) /\ FormattedAtDefault

\* C29 as amended: the balance call is completed before the decimals call is
\* issued; if the balance call fails (after its retries, or at once on an
\* error pRetry does not retry) the tool fails and the decimals call is never
\* issued; if the decimals call fails (likewise) the failure is swallowed and
\* the decimals stay 18: the tool succeeds with the balance formatted at 18
\* decimals when BigInt accepts the balance result, and fails with the
\* SyntaxError of the balance result otherwise.
C29_DecimalsFailureSwallowed ==
    /\ BalanceFirst
    /\ (TokenTool /\ pc[1] = "raised") => Exhausted(1) \/ Aborted(1)
    /\ DecimalsFailed =>
          /\ Exhausted(2) \/ Aborted(2)
          /\ decimals = 18
          /\ IF IsBigIntLiteral(hex) THEN FormattedAtDefault
             ELSE tool.outcome = Rejected(Err(SyntaxError, SyntaxError))

\* the decimals call failed eleven times after the balance call returned 0x12:
\* the tool returned 18 units formatted at 18 decimals
C29_Witness ==
    /\ DecimalsFailed
    /\ attempts[2] = AttemptBudget
    /\ hex = "0x12"
    /\ tool.outcome = Fulfilled("0.000000000000000018")

\* ---- C30

\* a request that carried a session id its server's registry did not hold was
\* answered 400 and reached no transport; a POST /messages without sessionId
\* carries the id undefined, which is never registered
UnregisteredRefused ==
    (/\ answer.route \in {"POST /messages", "POST /mcp", "GET /mcp", "DELETE /mcp"}
     /\ answer.sessionId # Undefined \/ answer.server = "tatum"
     /\ ~answer.registered)
        => answer.status = 400 /\ answer.reached = Undefined

\* no session of a closed Centrifuge transport is registered
ClosedRemoved == transports.centrifuge \cap closed = {}

\* the Tatum registry loses no session id, and a session id enters the
\* Centrifuge registry only by an initialize request without session id, which
\* reaches the transport of that session
RegistriesKept ==
    /\ transports.tatum \subseteq transports'.tatum
    /\ \A id \in transports'.centrifuge \ transports.centrifuge :
          /\ answer'.route = "POST /mcp"
          /\ answer'.sessionId = Undefined
          /\ answer'.init
          /\ answer'.reached = id
          /\ id \notin closed

\* C30: session registries of the HTTP servers: in the Tatum server a POST
\* /messages whose sessionId was never registered by GET /sse is answered 400
\* and is never dispatched to a transport, and a registered session id is
\* never removed; in the Centrifuge server a session id is registered only when
\* an initialize request without session id has initialized it, is removed when
\* its transport closes, and any POST, GET or DELETE /mcp carrying an
\* unregistered or already closed session id is answered 400 without reaching
\* a transport.
C30_SessionRegistries ==
    [](UnregisteredRefused /\ ClosedRemoved) /\ [][RegistriesKept]_vars

\* the part of C30 that holds: what the registries hold, and the 400 for every
\* session id that names no property of Object.prototype
C30_RegistriesKeptAndOthersRefused ==
    /\ [](ClosedRemoved)
    /\ [](answer.sessionId \notin ObjectPrototypeKeys => UnregisteredRefused)
    /\ [][RegistriesKept]_vars

\* a request for the session of a closed Centrifuge transport was answered 400
C30_ClosedRefused ==
    /\ answer.server = "centrifuge"
    /\ answer.sessionId \in closed
    /\ answer.status = 400

====
